---------------------------- MODULE Spec2Model ----------------------------
(***************************************************************************)
(* A model of the Cachetron key-value server: the progressive hash map,    *)
(* the keyspace commands, the sorted set, the connection state machine     *)
(* and the event loop with its timers.                                      *)
(***************************************************************************)
EXTENDS Integers, Sequences, FiniteSets, TLC

VARIABLES
    hmap,        \* HMap under test: [ht1, ht2, resizing_pos]
    hm_ref,      \* reference map of the hash-map runs: the set of keys present
    hm_last,     \* the last hash-map call and what it returned
    hm_crashed,  \* the process was killed inside a hash-map call
    hm_limit,    \* the largest key this run inserts
    db,          \* g_data.db
    ents,        \* the Entry objects, by address
    heap,        \* g_data.heap
    crashed,     \* the server process was killed
    ref,         \* reference keyspace of the command runs
    last,        \* the last command dispatched, its response and the expected one
    cmd_limit,   \* the number of keys a command run may create
    conns,       \* g_data.fd2conn: the Conn of every open connection, by fd
    idle_conns,  \* g_data.idle_conns: the fds of the idle list, head first
    clock,       \* the monotonic clock, in microseconds
    loop,        \* where main is in an iteration of the event loop
    net,         \* the clients and the socket of each
    backlog,     \* the clients that connected and are not accepted yet
    gh,          \* history: TTL deadlines granted, late GETs, idle closes
    zs,          \* ZSet under test: [tree, hmap, T]
    zs_ref,      \* reference of the sorted-set runs: the score of every member
    zs_last,     \* the last sorted-set call and what it returned
    dq,          \* Deque under test: [data, capacity, size, front, back]
    dq_ref,      \* the pointers pushed and not yet popped, oldest first
    dq_last,     \* the last deque call, what it returned and what was expected
    pool,        \* g_data.pool: [queue, stop]; the mutex is free between two steps
    threads,     \* the worker threads: where each one is and the Worker it copied
    tp_main,     \* the thread that submits and shuts down: where it is in the call
    tp_stack,    \* the Worker last written at each address of that thread's stack
    tp_hist,     \* the tasks submitted, the tasks run, and whether a worker crashed
    avlc,        \* Container of the tree runs: [root, T], T the memory of its Data
    avl_ref,     \* reference of the tree runs: the values held, in ascending order
    avl_last     \* the last call on the container and the node it was about: its children

hm_vars == <<hmap, hm_ref, hm_last, hm_crashed, hm_limit>>
data_vars == <<db, ents, heap, crashed>>
cmd_vars == <<ref, last, cmd_limit>>

srv_vars == <<conns, idle_conns, clock, loop, net, backlog, gh>>
zs_vars == <<zs, zs_ref, zs_last>>
dq_vars == <<dq, dq_ref, dq_last>>
pool_vars == <<pool, threads, tp_main, tp_stack, tp_hist>>
avl_vars == <<avlc, avl_ref, avl_last>>
lib_vars == <<zs_vars, dq_vars, pool_vars, avl_vars>>

vars == <<hmap, hm_ref, hm_last, hm_crashed, hm_limit, db, ents, heap, crashed,
          ref, last, cmd_limit, conns, idle_conns, clock, loop, net, backlog, gh,
          zs, zs_ref, zs_last, dq, dq_ref, dq_last, pool, threads, tp_main,
          tp_stack, tp_hist, avlc, avl_ref, avl_last>>

-----------------------------------------------------------------------------
(* Small helpers *)

Min(a, b) == IF a < b THEN a ELSE b
Max(a, b) == IF a > b THEN a ELSE b

RemoveAt(s, i) == SubSeq(s, 1, i - 1) \o SubSeq(s, i + 1, Len(s))

\* A local of a C function: v is computed once, as a value, and named in what
\* follows
Let(v, B(_)) == CHOOSE r \in {B(x) : x \in {v}} : TRUE

RECURSIVE Pow2(_)
Pow2(n) == IF n = 0 THEN 1 ELSE 2 * Pow2(n - 1)

IsPow2(n) == \E e \in 0..16 : n = Pow2(e)

-----------------------------------------------------------------------------
(* Hash table: src/data_structures/hashtable.c *)

k_resizing_work == 128
k_max_load_factor == 8

\* A 64-bit hash code is kept as four 16-bit limbs, least significant first.
Limb == 256 * 256

\* hcode & mask, for a mask + 1 that is a power of two up to 2^16
HashAnd(hcode, mask) == hcode[1] % (mask + 1)

\* An HNode together with what container_of() reaches from it: the identity of
\* the containing object and its key bytes.  id 0 is nullptr.
NullNode == [id |-> 0, hcode |-> <<0, 0, 0, 0>>, key |-> <<>>]

\* The function pointers passed as eq
entry_eq(lhs, rhs) == lhs.key = rhs.key
compare_hnode(lhs, rhs) == lhs.id = rhs.id
hcmp(node, key) == Len(node.key) = Len(key.key) /\ node.key = key.key

CallEq(eq, lhs, rhs) ==
    CASE eq = "entry_eq" -> entry_eq(lhs, rhs)
      [] eq = "compare_hnode" -> compare_hnode(lhs, rhs)
      [] eq = "hcmp" -> hcmp(lhs, rhs)

\* (HTab){}: tab = nullptr is the empty function
HTabZero == [tab |-> <<>>, mask |-> 0, size |-> 0]

init_hmap == [ht1 |-> HTabZero, ht2 |-> HTabZero, resizing_pos |-> 0]

RECURSIVE clp2step(_, _)
clp2step(x, p) == IF p >= x THEN p ELSE clp2step(x, 2 * p)
clp2(x) == clp2step(x, 1)

h_init(n0) ==
    LET n1 == IF n0 = 0 THEN 2 ELSE n0
        n  == IF ~IsPow2(n1) THEN clp2(n1) ELSE n1
    IN  [tab |-> [i \in 0..(n - 1) |-> <<>>], mask |-> n - 1, size |-> 0]

\* h_insert that links every node in bucket 0
h_insert_bucket0(htab, node) ==
    [htab EXCEPT !.tab[0] = <<node>> \o @, !.size = @ + 1]

\* A bucket is the chain from its head; a new node is linked at the head.
h_insert(htab, node) ==
    LET pos == HashAnd(node.hcode, htab.mask)
    IN  [htab EXCEPT !.tab[pos] = <<node>> \o @, !.size = @ + 1]

\* The place of the incoming link of the node found: bucket pos and the index
\* in its chain; idx = 0 is nullptr.
NullFrom == [pos |-> 0, idx |-> 0]

RECURSIVE chain_find(_, _, _, _)
chain_find(chain, i, key, eq) ==
    IF i > Len(chain) THEN 0
    ELSE IF chain[i].hcode = key.hcode /\ CallEq(eq, chain[i], key) THEN i
    ELSE chain_find(chain, i + 1, key, eq)

h_lookup(htab, key, eq) ==
    IF htab.tab # <<>>
    THEN LET pos == HashAnd(key.hcode, htab.mask)
         IN  [pos |-> pos, idx |-> chain_find(htab.tab[pos], 1, key, eq)]
    ELSE NullFrom

FromNode(htab, from) == htab.tab[from.pos][from.idx]

h_detach(htab, from) ==
    [htab EXCEPT !.tab[from.pos] = RemoveAt(@, from.idx), !.size = @ - 1]

\* One pass of the while loop of hm_help_resizing, on [hm, nwork]; the identity
\* once the loop condition fails.
help_resizing_step(st) ==
    LET hm == st.hm
    IN  IF st.nwork < k_resizing_work /\ hm.ht2.size > 0
        THEN IF hm.ht2.tab[hm.resizing_pos] = <<>>
             THEN [st EXCEPT !.hm.resizing_pos = @ + 1]
             ELSE LET from == [pos |-> hm.resizing_pos, idx |-> 1]
                      node == FromNode(hm.ht2, from)
                  IN  [hm |-> [hm EXCEPT !.ht2 = h_detach(@, from),
                                         !.ht1 = h_insert(@, node)],
                       nwork |-> st.nwork + 1]
        ELSE st

\* n passes of the loop (halved, to keep the evaluation shallow)
RECURSIVE help_resizing_loop(_, _)
help_resizing_loop(st, n) ==
    IF n = 0 THEN st
    ELSE IF n = 1 THEN help_resizing_step(st)
    ELSE LET half == help_resizing_loop(st, n \div 2)
         IN  IF half.nwork < k_resizing_work /\ half.hm.ht2.size > 0
             THEN help_resizing_loop(half, n - (n \div 2))
             ELSE half

\* hm_help_resizing that never releases the retiring table
hm_help_resizing_keep(hm0) ==
    help_resizing_loop([hm |-> hm0, nwork |-> 0], k_resizing_work + hm0.ht2.mask + 1).hm

\* hm_help_resizing that moves the cursor on when its loop has ended with
\* nodes left in the retiring table
hm_help_resizing_skip(hm0) ==
    Let(help_resizing_loop([hm |-> hm0, nwork |-> 0],
                           k_resizing_work + hm0.ht2.mask + 1).hm, LAMBDA hm :
        IF hm.ht2.size = 0 /\ hm.ht2.tab # <<>>
        THEN [hm EXCEPT !.ht2 = HTabZero]
        ELSE IF hm.ht2.tab # <<>> /\ hm.resizing_pos < hm.ht2.mask
        THEN [hm EXCEPT !.resizing_pos = @ + 1]
        ELSE hm)

\* The loop ends within k_resizing_work moves and one pass per bucket skipped.
hm_help_resizing(hm0) ==
    Let(help_resizing_loop([hm |-> hm0, nwork |-> 0],
                           k_resizing_work + hm0.ht2.mask + 1).hm, LAMBDA hm :
        IF hm.ht2.size = 0 /\ hm.ht2.tab # <<>>
        THEN [hm EXCEPT !.ht2 = HTabZero]
        ELSE hm)

\* hm_start_resizing with a new table of the same capacity
hm_start_resizing_same_size(hm) ==
    [ht1 |-> h_init(hm.ht1.mask + 1), ht2 |-> hm.ht1, resizing_pos |-> 0]

hm_start_resizing(hm) ==
    [ht1 |-> h_init((hm.ht1.mask + 1) * 2), ht2 |-> hm.ht1, resizing_pos |-> 0]

\* A lookup that consults the current table only
hm_lookup_current_only(hm0, key, eq) ==
    Let(hm_help_resizing(hm0), LAMBDA hm :
    Let(h_lookup(hm.ht1, key, eq), LAMBDA from1 :
        [hmap |-> hm,
         ret  |-> IF from1.idx # 0 THEN FromNode(hm.ht1, from1) ELSE NullNode,
         ub   |-> FALSE]))

\* Each call answers [hmap, ret, ub]: the map after the call, the node returned
\* (NullNode for nullptr) and whether the call dereferenced a null pointer.
hm_lookup(hm0, key, eq) ==
    Let(hm_help_resizing(hm0), LAMBDA hm :
    Let(h_lookup(hm.ht1, key, eq), LAMBDA from1 :
    Let(h_lookup(hm.ht2, key, eq), LAMBDA from2 :
        [hmap |-> hm,
         ret  |-> IF from1.idx # 0 THEN FromNode(hm.ht1, from1)
                  ELSE IF from2.idx # 0 THEN FromNode(hm.ht2, from2)
                  ELSE NullNode,
         ub   |-> FALSE])))

hm_insert(hm0, node) ==
    Let(IF hm0.ht1.tab = <<>> THEN [hm0 EXCEPT !.ht1 = h_init(4)] ELSE hm0, LAMBDA hm1 :
    Let([hm1 EXCEPT !.ht1 = h_insert(@, node)], LAMBDA hm2 :
    Let(hm2.ht1.size \div (hm2.ht1.mask + 1), LAMBDA load_factor :
        hm_help_resizing(IF hm2.ht2.tab = <<>> /\ load_factor >= k_max_load_factor
                         THEN hm_start_resizing(hm2) ELSE hm2))))

\* hm_pop hands h_detach the variable from, which is nullptr whenever the
\* second lookup is reached: h_detach(&hmap->ht2, from) reads *from.
hm_pop(hm0, key, eq) ==
    Let(hm_help_resizing(hm0), LAMBDA hm :
    Let(h_lookup(hm.ht1, key, eq), LAMBDA from :
    Let(h_lookup(hm.ht2, key, eq), LAMBDA from2 :
        IF from.idx # 0
        THEN [hmap |-> [hm EXCEPT !.ht1 = h_detach(@, from)],
              ret |-> FromNode(hm.ht1, from), ub |-> FALSE]
        ELSE IF from2.idx # 0
        THEN [hmap |-> hm, ret |-> NullNode, ub |-> from.idx = 0]
        ELSE [hmap |-> hm, ret |-> NullNode, ub |-> FALSE])))

hm_size(hm) == hm.ht1.size + hm.ht2.size

-----------------------------------------------------------------------------
(* Byte strings and the response encoding: src/server.c, src/common.h *)

\* A string_c is the sequence of its bytes.
SER_NIL == 0
SER_ERR == 1
SER_STR == 2
SER_INT == 3
SER_DBL == 4
SER_ARR == 5

ERR_UNKNOWN == 1
ERR_2BIG == 2
ERR_TYPE == 3
ERR_ARG == 4

T_STR == 0
T_ZSET == 1

\* SIZE_MAX, the heap_idx of an entry without a TTL
SIZE_MAX == 0 - 1

RECURSIVE Pow256(_)
Pow256(n) == IF n = 0 THEN 1 ELSE 256 * Pow256(n - 1)

\* A uint64_t or int64_t (two's complement) is kept as four 16-bit limbs, least
\* significant first, and every operation on it is modulo 2^64.
\* U64(n) for 0 <= n < 2^31, I64(n) for |n| < 2^31
U64(n) == <<n % Limb, n \div Limb, 0, 0>>

\* The limbs of a tuple of limb sums, each below 2^30: the carries propagated
\* and the one out of the top limb dropped
u64_norm(t) ==
    LET c1 == t[1] \div Limb
        c2 == (t[2] + c1) \div Limb
        c3 == (t[3] + c2) \div Limb
    IN  <<t[1] % Limb, (t[2] + c1) % Limb, (t[3] + c2) % Limb, (t[4] + c3) % Limb>>

\* The carry out of the top limb
u64_carry(t) ==
    (t[4] + ((t[3] + ((t[2] + (t[1] \div Limb)) \div Limb)) \div Limb)) \div Limb

u64_add(a, b) == u64_norm([i \in 1..4 |-> a[i] + b[i]])
u64_not(a) == [i \in 1..4 |-> Limb - 1 - a[i]]
u64_sub(a, b) == u64_norm([i \in 1..4 |-> a[i] + (Limb - 1 - b[i]) + (IF i = 1 THEN 1 ELSE 0)])

\* a * k and a / k for 0 < k < 2^14
u64_mul(a, k) == u64_norm([i \in 1..4 |-> a[i] * k])
u64_div(a, k) ==
    LET x3 == (a[4] % k) * Limb + a[3]
        x2 == (x3 % k) * Limb + a[2]
        x1 == (x2 % k) * Limb + a[1]
    IN  <<x1 \div k, x2 \div k, x3 \div k, a[4] \div k>>

u64_less(a, b) ==
    IF a[4] # b[4] THEN a[4] < b[4]
    ELSE IF a[3] # b[3] THEN a[3] < b[3]
    ELSE IF a[2] # b[2] THEN a[2] < b[2]
    ELSE a[1] < b[1]

\* (int64_t) of a uint64_t keeps the limbs (the conversion of gcc and clang)
i64_negative(a) == a[4] >= Limb \div 2
i64_neg(a) == u64_sub(U64(0), a)
I64(n) == IF n < 0 THEN i64_neg(U64(0 - n)) ELSE U64(n)

\* a / k of int64_t, truncated toward zero
i64_div(a, k) == IF i64_negative(a) THEN i64_neg(u64_div(i64_neg(a), k)) ELSE u64_div(a, k)

LLONG_MAX == <<Limb - 1, Limb - 1, Limb - 1, (Limb \div 2) - 1>>
LLONG_MIN == <<0, 0, 0, Limb \div 2>>

\* An int64_t as an integer of the model: itself when below 2^31 in magnitude,
\* and 2^31 - 1 with its sign otherwise (beyond every count and offset it is
\* compared with)
IntOf(a) ==
    IF i64_negative(a)
    THEN Let(i64_neg(a), LAMBDA m :
             IF m[4] = 0 /\ m[3] = 0 /\ m[2] < Limb \div 2 THEN 0 - (m[1] + Limb * m[2])
             ELSE 0 - 2147483647)
    ELSE IF a[4] = 0 /\ a[3] = 0 /\ a[2] < Limb \div 2 THEN a[1] + Limb * a[2]
    ELSE 2147483647

\* The bytes of a uint32_t / int32_t in memory (little endian), for values
\* below 2^31 in magnitude
U32Bytes(n) == [i \in 1..4 |-> (n \div Pow256(i - 1)) % 256]

\* The bytes of an int64_t in memory (little endian, two's complement)
I64Bytes(val) ==
    [i \in 1..8 |-> IF i % 2 = 1 THEN val[(i + 1) \div 2] % 256
                    ELSE val[i \div 2] \div 256]

\* The uint32_t read by memcpy from four bytes; a value of 2^31 or more is
\* answered as 2^31 - 1 + 1 = TooLong, above every limit it is compared with
TooLong == 256 * 256 * 256 * 64
U32Read(b) ==
    IF b[4] >= 64 THEN TooLong
    ELSE b[1] + 256 * b[2] + 256 * 256 * b[3] + 256 * 256 * 256 * b[4]

out_nil(out) == Append(out, SER_NIL)
out_str(out, val, size) == Append(out, SER_STR) \o U32Bytes(size) \o SubSeq(val, 1, size)
out_int(out, val) == Append(out, SER_INT) \o I64Bytes(val)
\* The bytes of the double of an integer score below 2^20 in magnitude (IEEE
\* 754 binary64, little endian): the low four bytes are zero, the high four
\* hold the sign, the exponent 1023 + e and the leading bits of the fraction
RECURSIVE ilog2(_)
ilog2(n) == IF n <= 1 THEN 0 ELSE 1 + ilog2(n \div 2)

DblBytes(val) ==
    Let(IF val < 0 THEN 0 - val ELSE val, LAMBDA a :
    Let(ilog2(a), LAMBDA e :
    Let(IF a = 0 THEN 0
        ELSE (1023 + e) * Pow2(20) + (a - Pow2(e)) * Pow2(20 - e), LAMBDA hi :
        <<0, 0, 0, 0, hi % 256, (hi \div 256) % 256, (hi \div Pow256(2)) % 256,
          (hi \div Pow256(3)) + (IF val < 0 THEN 128 ELSE 0)>>)))

out_dbl(out, val) == Append(out, SER_DBL) \o DblBytes(val)
out_err(out, code, msg) ==
    Append(out, SER_ERR) \o U32Bytes(code) \o U32Bytes(Len(msg)) \o msg
out_arr(out, n) == Append(out, SER_ARR) \o U32Bytes(n)

\* begin_arr answers the position of the count; positions here are 1-based
begin_arr(out) == [out |-> Append(out, SER_ARR) \o <<0, 0, 0, 0>>, ctx |-> Len(out) + 2]
end_arr(out, ctx, n) ==
    Let(U32Bytes(n), LAMBDA b :
        [i \in 1..Len(out) |-> IF i >= ctx /\ i < ctx + 4 THEN b[i - ctx + 1] ELSE out[i]])

\* The address malloc answers, in a memory whose objects in use are mem: the
\* lowest one not in use
malloc(mem) == CHOOSE a \in 1..(Cardinality(DOMAIN mem) + 1) : a \notin DOMAIN mem

free(mem, a) == [b \in DOMAIN mem \ {a} |-> mem[b]]

\* tolower of one byte, and the case-insensitive comparison with a C string
ToLower(b) == IF b >= 65 /\ b <= 90 THEN b + 32 ELSE b
nullptr == <<0 - 1>>
ptr_vector_at(v, index) == IF index < Len(v) THEN v[index + 1] ELSE nullptr
string_case_compare_cstr(s, cstr) ==
    /\ s # nullptr
    /\ Len(s) = Len(cstr) /\ \A i \in 1..Len(s) : ToLower(s[i]) = ToLower(cstr[i])
cmd_is(word, cmd) == string_case_compare_cstr(word, cmd)
string_compare(s1, s2) == Len(s1) = Len(s2) /\ s1 = s2

\* The C string literals of the dispatch, as bytes
Str_keys == <<107, 101, 121, 115>>
Str_get == <<103, 101, 116>>
Str_set == <<115, 101, 116>>
Str_del == <<100, 101, 108>>
Str_expire == <<101, 120, 112, 105, 114, 101>>
Str_pttl == <<112, 116, 116, 108>>
Str_exists == <<101, 120, 105, 115, 116, 115>>
Str_zadd == <<122, 97, 100, 100>>
Str_zrem == <<122, 114, 101, 109>>
Str_zscore == <<122, 115, 99, 111, 114, 101>>
Str_shutdown == <<115, 104, 117, 116, 100, 111, 119, 110>>
Msg_shutting_down ==
    <<83, 101, 114, 118, 101, 114, 32, 105, 115, 32, 115, 104, 117, 116, 116, 105, 110, 103,
      32, 100, 111, 119, 110, 46, 46, 46>>
Str_zquery == <<122, 113, 117, 101, 114, 121>>
Msg_expect_string_type ==
    <<101, 120, 112, 101, 99, 116, 32, 115, 116, 114, 105, 110, 103, 32, 116, 121, 112, 101>>
Msg_expect_int64_type ==
    <<101, 120, 112, 101, 99, 116, 32, 105, 110, 116, 54, 52, 32, 116, 121, 112, 101>>
Msg_expect_zset_type ==
    <<101, 120, 112, 101, 99, 116, 32, 122, 115, 101, 116, 32, 116, 121, 112, 101>>
Msg_expected_fp_number ==
    <<101, 120, 112, 101, 99, 116, 101, 100, 32, 97, 32, 102, 108, 111, 97, 116, 105, 110,
      103, 32, 112, 111, 105, 110, 116, 32, 110, 117, 109, 98, 101, 114>>
Msg_invalid_score == <<105, 110, 118, 97, 108, 105, 100, 32, 115, 99, 111, 114, 101>>
Msg_invalid_offset_or_limit ==
    <<105, 110, 118, 97, 108, 105, 100, 32, 111, 102, 102, 115, 101, 116, 32, 111, 114, 32,
      108, 105, 109, 105, 116>>
Msg_Response_is_too_big ==
    <<82, 101, 115, 112, 111, 110, 115, 101, 32, 105, 115, 32, 116, 111, 111, 32, 98, 105, 103>>
Msg_Unknown_cmd == <<85, 110, 107, 110, 111, 119, 110, 32, 99, 109, 100>>

\* x ^ y on the low n bits
RECURSIVE XorBits(_, _, _)
XorBits(x, y, n) ==
    IF n = 0 THEN 0
    ELSE (((x % 2) + (y % 2)) % 2) + 2 * XorBits(x \div 2, y \div 2, n - 1)

\* FNV_offset_basis 0xcbf29ce484222325 in limbs
FNV_offset_basis == <<8997, 33826, 40164, 52210>>

\* hash ^= data[i]
fnv_xor(h, byte) ==
    [h EXCEPT ![1] = (@ \div 256) * 256 + XorBits(@ % 256, byte, 8)]

\* hash += (hash << 1) + (hash << 4) + (hash << 5) + (hash << 7) + (hash << 8)
\*         + (hash << 40), modulo 2^64: 435 * hash + (hash << 40)
fnv_mul(h) ==
    LET t0 == 435 * h[1]
        t1 == 435 * h[2] + (t0 \div Limb)
        t2 == 435 * h[3] + (t1 \div Limb) + (h[1] % 256) * 256
        t3 == 435 * h[4] + (t2 \div Limb) + (h[1] \div 256) + (h[2] % 256) * 256
    IN  <<t0 % Limb, t1 % Limb, t2 % Limb, t3 % Limb>>

\* The loop over data[lo..hi], the first half of the range and then the second
RECURSIVE fnv_loop(_, _, _, _)
fnv_loop(h, data, lo, hi) ==
    IF lo > hi THEN h
    ELSE IF lo = hi THEN fnv_mul(fnv_xor(h, data[lo]))
    ELSE Let((lo + hi) \div 2, LAMBDA mid :
         Let(fnv_loop(h, data, lo, mid), LAMBDA h1 : fnv_loop(h1, data, mid + 1, hi)))

fnv1a_hash(data) == fnv_loop(FNV_offset_basis, data, 1, Len(data))

-----------------------------------------------------------------------------
(* The TTL heap: src/data_structures/heap.c.  Positions are the C indices,  *)
(* item[pos] is the element pos + 1 of the sequence; an item is [val, ref]  *)
(* with ref the entry whose heap_idx it points at.  The heap functions work *)
(* on H = [item, ents], the array and the memory the refs point into.       *)

heap_parent(i) == ((i + 1) \div 2) - 1
heap_left(i) == i * 2 + 1
heap_right(i) == i * 2 + 2

\* item[pos] = it; *item[pos].ref = pos
heap_put(H, pos, it) ==
    [item |-> [H.item EXCEPT ![pos + 1] = it],
     ents |-> [H.ents EXCEPT ![it.ref].heap_idx = pos]]

RECURSIVE heap_up_loop(_, _, _)
heap_up_loop(H, pos, t) ==
    IF pos > 0 /\ u64_less(t.val, H.item[heap_parent(pos) + 1].val)
    THEN heap_up_loop(heap_put(H, pos, H.item[heap_parent(pos) + 1]), heap_parent(pos), t)
    ELSE heap_put(H, pos, t)

heap_up(H, pos) == heap_up_loop(H, pos, H.item[pos + 1])

\* The child of pos the loop of heap_down moves up next: the smaller child when
\* it is smaller than t, -1 when there is none
heap_down_min(H, pos, len, t) ==
    Let(heap_left(pos), LAMBDA l :
    Let(heap_right(pos), LAMBDA r :
    Let(l < len /\ u64_less(H.item[l + 1].val, t.val), LAMBDA lmin :
    Let(IF lmin THEN H.item[l + 1].val ELSE t.val, LAMBDA min_val :
        IF r < len /\ u64_less(H.item[r + 1].val, min_val) THEN r
        ELSE IF lmin THEN l ELSE 0 - 1))))

RECURSIVE heap_down_loop(_, _, _, _)
heap_down_loop(H, pos, len, t) ==
    Let(heap_down_min(H, pos, len, t), LAMBDA min_pos :
        IF min_pos = 0 - 1 THEN heap_put(H, pos, t)
        ELSE heap_down_loop(heap_put(H, pos, H.item[min_pos + 1]), min_pos, len, t))

heap_down(H, pos, len) == heap_down_loop(H, pos, len, H.item[pos + 1])

\* heap_update that moves an item towards the root only
heap_update_up(H, pos, len) ==
    IF pos > 0 /\ u64_less(H.item[pos + 1].val, H.item[heap_parent(pos) + 1].val)
    THEN heap_up(H, pos)
    ELSE H

heap_update(H, pos, len) ==
    IF pos > 0 /\ u64_less(H.item[pos + 1].val, H.item[heap_parent(pos) + 1].val)
    THEN heap_up(H, pos)
    ELSE heap_down(H, pos, len)

-----------------------------------------------------------------------------
(* The AVL tree: src/data_structures/trees/avl.c.  T is the memory of the    *)
(* nodes, a function from address to [height, count, left, right, parent]   *)
(* (and, for a ZNode, score, name and hcode); address 0 is nullptr.  A       *)
(* function that changes the tree answers [T, ret].                          *)

avl_height(T, node) == IF node # 0 THEN T[node].height ELSE 0
avl_count(T, node) == IF node # 0 THEN T[node].count ELSE 0

\* avl_update that leaves the count as it was
avl_update_height(T, node) ==
    [T EXCEPT ![node].height = 1 + Max(avl_height(T, T[node].left),
                                       avl_height(T, T[node].right))]

avl_update(T, node) ==
    [T EXCEPT ![node].height = 1 + Max(avl_height(T, T[node].left),
                                       avl_height(T, T[node].right)),
              ![node].count = 1 + avl_count(T, T[node].left)
                                + avl_count(T, T[node].right)]

\* rot_left that leaves the inner subtree of the new root behind
rot_left_drop(T, node) ==
    LET new_node == T[node].right
        T2 == [T EXCEPT ![node].right = 0,
                        ![new_node].left = node,
                        ![new_node].parent = T[node].parent,
                        ![node].parent = new_node]
    IN  [T |-> avl_update(avl_update(T2, node), new_node), ret |-> new_node]

rot_left(T, node) ==
    LET new_node == T[node].right
        T1 == IF T[new_node].left # 0
              THEN [T EXCEPT ![T[new_node].left].parent = node] ELSE T
        T2 == [T1 EXCEPT ![node].right = T[new_node].left,
                         ![new_node].left = node,
                         ![new_node].parent = T[node].parent,
                         ![node].parent = new_node]
    IN  [T |-> avl_update(avl_update(T2, node), new_node), ret |-> new_node]

rot_right(T, node) ==
    LET new_node == T[node].left
        T1 == IF T[new_node].right # 0
              THEN [T EXCEPT ![T[new_node].right].parent = node] ELSE T
        T2 == [T1 EXCEPT ![node].left = T[new_node].right,
                         ![new_node].right = node,
                         ![new_node].parent = T[node].parent,
                         ![node].parent = new_node]
    IN  [T |-> avl_update(avl_update(T2, node), new_node), ret |-> new_node]

avl_fix_left(T, root) ==
    IF avl_height(T, T[T[root].left].left) < avl_height(T, T[T[root].left].right)
    THEN Let(rot_left(T, T[root].left), LAMBDA r :
             rot_right([r.T EXCEPT ![root].left = r.ret], root))
    ELSE rot_right(T, root)

\* avl_fix_right without the rotation of the right child
avl_fix_right_single(T, root) == rot_left(T, root)

avl_fix_right(T, root) ==
    IF avl_height(T, T[T[root].right].right) < avl_height(T, T[T[root].right].left)
    THEN Let(rot_right(T, T[root].right), LAMBDA r :
             rot_left([r.T EXCEPT ![root].right = r.ret], root))
    ELSE rot_left(T, root)

\* One pass of the while loop of avl_fix: [T, ret, done], ret being the node
\* returned when done and the node of the next pass otherwise
avl_fix_step(T, node) ==
    Let(avl_update(T, node), LAMBDA T1 :
    Let(avl_height(T1, T1[node].left), LAMBDA l :
    Let(avl_height(T1, T1[node].right), LAMBDA r :
    Let(T1[node].parent, LAMBDA parent :
    Let(IF parent = 0 THEN "null"
        ELSE IF T1[parent].left = node THEN "left" ELSE "right", LAMBDA from :
    Let(IF l = r + 2 THEN avl_fix_left(T1, node)
        ELSE IF l + 2 = r THEN avl_fix_right(T1, node)
        ELSE [T |-> T1, ret |-> node], LAMBDA f :
        IF from = "null" THEN [T |-> f.T, ret |-> f.ret, done |-> TRUE]
        ELSE [T |-> [f.T EXCEPT ![parent][from] = f.ret],
              ret |-> f.T[f.ret].parent, done |-> FALSE]))))))

RECURSIVE avl_fix(_, _)
avl_fix(T, node) ==
    Let(avl_fix_step(T, node), LAMBDA s :
        IF s.done THEN [T |-> s.T, ret |-> s.ret] ELSE avl_fix(s.T, s.ret))

RECURSIVE leftmost(_, _)
leftmost(T, victim) == IF T[victim].left # 0 THEN leftmost(T, T[victim].left) ELSE victim

RECURSIVE avl_del(_, _)
avl_del(T, node) ==
    IF T[node].right = 0
    THEN Let(T[node].parent, LAMBDA parent :
         Let(IF T[node].left # 0
             THEN [T EXCEPT ![T[node].left].parent = parent] ELSE T, LAMBDA T1 :
             IF parent # 0
             THEN avl_fix([T1 EXCEPT ![parent][IF T[parent].left = node THEN "left"
                                               ELSE "right"] = T[node].left],
                          parent)
             ELSE [T |-> T1, ret |-> T[node].left]))
    ELSE Let(leftmost(T, T[node].right), LAMBDA victim :
         Let(avl_del(T, victim), LAMBDA d :
         \* *victim = *node
         Let([d.T EXCEPT ![victim].height = d.T[node].height,
                         ![victim].count = d.T[node].count,
                         ![victim].left = d.T[node].left,
                         ![victim].right = d.T[node].right,
                         ![victim].parent = d.T[node].parent], LAMBDA T1 :
         Let(IF T1[victim].left # 0
             THEN [T1 EXCEPT ![T1[victim].left].parent = victim] ELSE T1, LAMBDA T2 :
         Let(IF T2[victim].right # 0
             THEN [T2 EXCEPT ![T2[victim].right].parent = victim] ELSE T2, LAMBDA T3 :
         Let(T3[node].parent, LAMBDA parent :
             IF parent # 0
             THEN [T |-> [T3 EXCEPT ![parent][IF T3[parent].left = node THEN "left"
                                              ELSE "right"] = victim],
                   ret |-> d.ret]
             ELSE [T |-> T3, ret |-> victim]))))))

\* avl_offset whose step into the left subtree forgets the node it lands on
RECURSIVE avl_offset_loop_short(_, _, _, _)
avl_offset_loop_short(T, node, pos, offset) ==
    IF offset = pos THEN node
    ELSE IF pos < offset /\ pos + avl_count(T, T[node].right) >= offset
    THEN avl_offset_loop_short(T, T[node].right,
                               pos + avl_count(T, T[T[node].right].left) + 1, offset)
    ELSE IF pos > offset /\ pos - avl_count(T, T[node].left) <= offset
    THEN avl_offset_loop_short(T, T[node].left,
                               pos - avl_count(T, T[T[node].left].right), offset)
    ELSE LET parent == T[node].parent
         IN  IF parent = 0 THEN 0
             ELSE IF T[parent].right = node
             THEN avl_offset_loop_short(T, parent,
                                        pos - (avl_count(T, T[node].left) + 1), offset)
             ELSE avl_offset_loop_short(T, parent,
                                        pos + avl_count(T, T[node].right) + 1, offset)

RECURSIVE avl_offset_loop(_, _, _, _)
avl_offset_loop(T, node, pos, offset) ==
    IF offset = pos THEN node
    ELSE IF pos < offset /\ pos + avl_count(T, T[node].right) >= offset
    THEN avl_offset_loop(T, T[node].right,
                         pos + avl_count(T, T[T[node].right].left) + 1, offset)
    ELSE IF pos > offset /\ pos - avl_count(T, T[node].left) <= offset
    THEN avl_offset_loop(T, T[node].left,
                         pos - (avl_count(T, T[T[node].left].right) + 1), offset)
    ELSE LET parent == T[node].parent
         IN  IF parent = 0 THEN 0
             ELSE IF T[parent].right = node
             THEN avl_offset_loop(T, parent, pos - (avl_count(T, T[node].left) + 1), offset)
             ELSE avl_offset_loop(T, parent, pos + avl_count(T, T[node].right) + 1, offset)

avl_offset(T, node, offset) == avl_offset_loop(T, node, 0, offset)

-----------------------------------------------------------------------------
(* The sorted set: src/data_structures/zset.c.  A ZSet is [tree, hmap, T]:   *)
(* the root, the hash map by name, and the ZNodes it owns.                   *)

zset_init == [tree |-> 0, hmap |-> init_hmap, T |-> <<>>]

\* memcmp(a, b, n) < 0, = 0
RECURSIVE memcmp(_, _, _, _)
memcmp(a, b, i, n) ==
    IF i > n THEN 0
    ELSE IF a[i] # b[i] THEN a[i] - b[i]
    ELSE memcmp(a, b, i + 1, n)

\* zless without the comparison of the lengths
zless_no_len(T, lhs, score, name) ==
    IF T[lhs].score # score THEN T[lhs].score < score
    ELSE memcmp(T[lhs].name, name, 1, Min(Len(T[lhs].name), Len(name))) < 0

zless(T, lhs, score, name) ==
    IF T[lhs].score # score THEN T[lhs].score < score
    ELSE Let(memcmp(T[lhs].name, name, 1, Min(Len(T[lhs].name), Len(name))), LAMBDA rv :
             IF rv # 0 THEN rv < 0 ELSE Len(T[lhs].name) < Len(name))

zless2(T, lhs, rhs) == zless(T, lhs, T[rhs].score, T[rhs].name)

\* The HNode of a ZNode, and of the HKey of a lookup
ZHNode(T, node) == [id |-> node, hcode |-> T[node].hcode, key |-> T[node].name]
HKey(name) == [id |-> 0 - 1, hcode |-> fnv1a_hash(name), key |-> name]

\* [zset, ret]
zset_lookup(zset, name) ==
    IF zset.tree # 0
    THEN Let(hm_lookup(zset.hmap, HKey(name), "hcmp"), LAMBDA r :
             [zset |-> [zset EXCEPT !.hmap = r.hmap], ret |-> r.ret.id, ub |-> FALSE])
    ELSE [zset |-> zset, ret |-> 0, ub |-> FALSE]

zset_pop(zset, name) ==
    IF zset.tree # 0
    THEN Let(hm_pop(zset.hmap, HKey(name), "hcmp"), LAMBDA r :
             IF r.ret.id # 0
             THEN Let(avl_del(zset.T, r.ret.id), LAMBDA d :
                      [zset |-> [tree |-> d.ret, hmap |-> r.hmap, T |-> d.T],
                       ret |-> r.ret.id, ub |-> FALSE])
             ELSE [zset |-> [zset EXCEPT !.hmap = r.hmap], ret |-> 0, ub |-> r.ub])
    ELSE [zset |-> zset, ret |-> 0, ub |-> FALSE]

RECURSIVE zset_query_loop(_, _, _, _, _)
zset_query_loop(T, cur, found, score, name) ==
    IF cur = 0 THEN found
    ELSE IF zless(T, cur, score, name)
    THEN zset_query_loop(T, T[cur].right, found, score, name)
    ELSE zset_query_loop(T, T[cur].left, cur, score, name)

zset_query(zset, score, name) == zset_query_loop(zset.T, zset.tree, 0, score, name)

znode_offset(zset, node, offset) ==
    IF node # 0 THEN avl_offset(zset.T, node, offset) ELSE 0

\* The search of tree_add: the node to attach under and the side
RECURSIVE tree_add_search(_, _, _, _)
tree_add_search(T, node, cur, from) ==
    IF T[cur][from] = 0 THEN [cur |-> cur, from |-> from]
    ELSE tree_add_search(T, node, T[cur][from],
                         IF zless2(T, node, T[cur][from]) THEN "left" ELSE "right")

\* from starts as &zset->tree, which is next = zset.tree with cur = nullptr
tree_add(zset, node) ==
    Let(IF zset.tree = 0 THEN [cur |-> 0, from |-> "tree"]
        ELSE tree_add_search(zset.T, node, zset.tree,
                             IF zless2(zset.T, node, zset.tree) THEN "left" ELSE "right"),
        LAMBDA at :
    Let(avl_fix(IF at.cur = 0 THEN [zset.T EXCEPT ![node].parent = 0]
                ELSE [zset.T EXCEPT ![at.cur][at.from] = node, ![node].parent = at.cur],
                node), LAMBDA f :
        [zset EXCEPT !.T = f.T, !.tree = f.ret]))

avl_init(T, node) ==
    [T EXCEPT ![node].height = 1, ![node].count = 1, ![node].left = 0,
              ![node].right = 0, ![node].parent = 0]

zset_update(zset, node, score) ==
    IF zset.T[node].score = score THEN zset
    ELSE Let(avl_del(zset.T, node), LAMBDA d :
             tree_add([zset EXCEPT !.tree = d.ret,
                                   !.T = avl_init([d.T EXCEPT ![node].score = score], node)],
                      node))

znode_new(name, score) ==
    [height |-> 1, count |-> 1, left |-> 0, right |-> 0, parent |-> 0,
     hcode |-> fnv1a_hash(name), score |-> score, name |-> name]

\* [zset, ret]: ret is TRUE when a new tuple was added
zset_add(zset0, name, score) ==
    Let(zset_lookup(zset0, name), LAMBDA l :
        IF l.ret # 0
        THEN [zset |-> zset_update(l.zset, l.ret, score), ret |-> FALSE]
        ELSE Let(malloc(l.zset.T), LAMBDA node :
             Let((node :> znode_new(name, score)) @@ l.zset.T, LAMBDA T1 :
                 [zset |-> tree_add([l.zset EXCEPT !.T = T1,
                                                   !.hmap = hm_insert(@, ZHNode(T1, node))],
                                    node),
                  ret |-> TRUE])))

-----------------------------------------------------------------------------
(* The keyspace: src/server.c.  G = [db, ents, heap] is g_data.db, the       *)
(* Entry objects on the C heap (by address) and g_data.heap.                 *)

entry_init == [key |-> <<>>, value |-> <<>>, type |-> T_STR, zset |-> <<>>,
               heap_idx |-> SIZE_MAX]

\* The HNode of the Entry key on the stack of a handler
KeyNode(key) == [id |-> 0 - 1, hcode |-> fnv1a_hash(key), key |-> key]

\* What a handler answers: g_data after it, the out string after it, whether it
\* ran into a null-pointer dereference (g and out are then those of the build
\* that takes the path for unreachable), and g_running
Ret(g, out) == [g |-> g, out |-> out, ub |-> FALSE, running |-> TRUE]

entry_set_ttl(G, ent, ttl_ms, now) ==
    IF i64_negative(ttl_ms) /\ G.ents[ent].heap_idx # SIZE_MAX
    THEN Let(G.ents[ent].heap_idx, LAMBDA pos :
         Let(SubSeq([G.heap EXCEPT ![pos + 1] = G.heap[Len(G.heap)]],
                    1, Len(G.heap) - 1), LAMBDA item :
         Let(IF pos < Len(item)
             THEN heap_update([item |-> item, ents |-> G.ents], pos, Len(item))
             ELSE [item |-> item, ents |-> G.ents], LAMBDA H :
             [G EXCEPT !.heap = H.item,
                       !.ents = [H.ents EXCEPT ![ent].heap_idx = SIZE_MAX]])))
    ELSE IF ~i64_negative(ttl_ms)
    THEN Let(G.ents[ent].heap_idx, LAMBDA pos0 :
         Let(IF pos0 = SIZE_MAX THEN Len(G.heap) ELSE pos0, LAMBDA pos :
         Let([val |-> u64_add(U64(now), u64_mul(ttl_ms, 1000)), ref |-> ent], LAMBDA it :
         Let(IF pos0 = SIZE_MAX THEN Append(G.heap, it)
             ELSE [G.heap EXCEPT ![pos + 1].val = it.val], LAMBDA item :
         Let(heap_update([item |-> item, ents |-> G.ents], pos, Len(item)), LAMBDA H :
             [G EXCEPT !.heap = H.item, !.ents = H.ents])))))
    ELSE G

\* entry_del without the entry_set_ttl(ent, -1) before the entry is destroyed
entry_del_keep_ttl(G, ent, now) == [G EXCEPT !.ents = free(@, ent)]

\* The test of entry_del: the entry is handed to the thread pool
entry_del_queued(E, ent) ==
    E[ent].type = T_ZSET /\ hm_size(E[ent].zset.hmap) > 10000

\* entry_del: the TTL is dropped and the entry destroyed at once, except a
\* sorted set of more than 10'000 members, which stays allocated: its address
\* is what thread_pool_queue is given, and the step that calls entry_del puts
\* it in the queue of the pool
entry_del(G, ent, now) ==
    LET G1 == entry_set_ttl(G, ent, I64(0 - 1), now)
    IN  IF entry_del_queued(G1.ents, ent) THEN G1
        ELSE [G1 EXCEPT !.ents = free(@, ent)]

do_get(G, cmd, out) ==
    Let(hm_lookup(G.db, KeyNode(cmd[2]), "entry_eq"), LAMBDA r :
    Let([G EXCEPT !.db = r.hmap], LAMBDA G1 :
        IF r.ret.id # 0
        THEN IF G.ents[r.ret.id].type # T_STR
             THEN Ret(G1, out_err(out, ERR_TYPE, Msg_expect_string_type))
             ELSE Ret(G1, out_str(out, G.ents[r.ret.id].value, Len(G.ents[r.ret.id].value)))
        ELSE Ret(G1, out_nil(out))))

\* do_set that makes the entry of an existing key anew: its heap_idx is reset
do_set_fresh(G, cmd, out) ==
    Let(KeyNode(cmd[2]), LAMBDA key :
    Let(hm_lookup(G.db, key, "entry_eq"), LAMBDA r :
    Let([G EXCEPT !.db = r.hmap], LAMBDA G1 :
        IF r.ret.id # 0
        THEN IF G.ents[r.ret.id].type # T_STR
             THEN Ret(G1, out_err(out, ERR_TYPE, Msg_expect_string_type))
             ELSE Ret([G1 EXCEPT !.ents[r.ret.id].value = cmd[3],
                                 !.ents[r.ret.id].heap_idx = SIZE_MAX], out_nil(out))
        ELSE Let(malloc(G.ents), LAMBDA new_entry :
                 Ret([G1 EXCEPT
                         !.ents = (new_entry :> [entry_init EXCEPT !.key = cmd[2],
                                                                   !.value = cmd[3]]) @@ @,
                         !.db = hm_insert(@, [id |-> new_entry, hcode |-> key.hcode,
                                              key |-> cmd[2]])],
                     out_nil(out))))))

do_set(G, cmd, out) ==
    Let(KeyNode(cmd[2]), LAMBDA key :
    Let(hm_lookup(G.db, key, "entry_eq"), LAMBDA r :
    Let([G EXCEPT !.db = r.hmap], LAMBDA G1 :
        IF r.ret.id # 0
        THEN IF G.ents[r.ret.id].type # T_STR
             THEN Ret(G1, out_err(out, ERR_TYPE, Msg_expect_string_type))
             ELSE Ret([G1 EXCEPT !.ents[r.ret.id].value = cmd[3]], out_nil(out))
        ELSE Let(malloc(G.ents), LAMBDA new_entry :
                 Ret([G1 EXCEPT
                         !.ents = (new_entry :> [entry_init EXCEPT !.key = cmd[2],
                                                                   !.value = cmd[3]]) @@ @,
                         !.db = hm_insert(@, [id |-> new_entry, hcode |-> key.hcode,
                                              key |-> cmd[2]])],
                     out_nil(out))))))

do_del(G, cmd, out, now) ==
    Let(hm_pop(G.db, KeyNode(cmd[2]), "entry_eq"), LAMBDA r :
    Let([G EXCEPT !.db = r.hmap], LAMBDA G1 :
        IF r.ret.id # 0
        THEN Ret(entry_del(G1, r.ret.id, now), out_int(out, I64(1)))
        ELSE [Ret(G1, out_int(out, I64(0))) EXCEPT !.ub = r.ub]))

\* strtoll(str, &end, 10): [val, end], end the number of bytes consumed and val
\* LLONG_MAX or LLONG_MIN when the digits are out of range
IsSpace(b) == b = 32 \/ (b >= 9 /\ b <= 13)
IsDigit(b) == b >= 48 /\ b <= 57

RECURSIVE skip_space(_, _)
skip_space(str, i) == IF i <= Len(str) /\ IsSpace(str[i]) THEN skip_space(str, i + 1) ELSE i

\* The magnitude of the digits, and whether it went past 2^64
RECURSIVE digits(_, _, _)
digits(str, i, acc) ==
    IF i <= Len(str) /\ IsDigit(str[i])
    THEN Let([k \in 1..4 |-> acc.val[k] * 10 + (IF k = 1 THEN str[i] - 48 ELSE 0)],
             LAMBDA t :
             digits(str, i + 1, [val |-> u64_norm(t), end |-> i,
                                 over |-> acc.over \/ u64_carry(t) > 0]))
    ELSE acc

strtoll(str) ==
    Let(skip_space(str, 1), LAMBDA i :
    Let(i <= Len(str) /\ (str[i] = 45 \/ str[i] = 43), LAMBDA sign :
    Let(digits(str, IF sign THEN i + 1 ELSE i,
               [val |-> U64(0), end |-> 0, over |-> FALSE]), LAMBDA d :
        [val |-> IF i <= Len(str) /\ str[i] = 45
                 THEN IF d.over \/ u64_less(LLONG_MIN, d.val) THEN LLONG_MIN
                      ELSE i64_neg(d.val)
                 ELSE IF d.over \/ ~u64_less(d.val, LLONG_MIN) THEN LLONG_MAX
                 ELSE d.val,
         end |-> d.end])))

str2int(str) == Let(strtoll(str), LAMBDA r : [ok |-> r.end = Len(str), val |-> r.val])

do_expire(G, cmd, out, now) ==
    Let(str2int(cmd[3]), LAMBDA p :
        IF ~p.ok THEN Ret(G, out_err(out, ERR_ARG, Msg_expect_int64_type))
        ELSE Let(hm_lookup(G.db, KeyNode(cmd[2]), "entry_eq"), LAMBDA r :
             Let([G EXCEPT !.db = r.hmap], LAMBDA G1 :
                 IF r.ret.id # 0
                 THEN Ret(entry_set_ttl(G1, r.ret.id, p.val, now), out_int(out, I64(1)))
                 ELSE Ret(G1, out_int(out, I64(0))))))

do_ttl(G, cmd, out, now) ==
    Let(hm_lookup(G.db, KeyNode(cmd[2]), "entry_eq"), LAMBDA r :
    Let([G EXCEPT !.db = r.hmap], LAMBDA G1 :
        IF r.ret.id = 0 THEN Ret(G1, out_int(out, I64(0 - 2)))
        ELSE IF G.ents[r.ret.id].heap_idx = SIZE_MAX THEN Ret(G1, out_int(out, I64(0 - 1)))
        ELSE Let(G.heap[G.ents[r.ret.id].heap_idx + 1].val, LAMBDA expire_at :
                 Ret(G1, out_int(out, IF u64_less(U64(now), expire_at)
                                      THEN i64_div(u64_sub(expire_at, U64(now)), 1000)
                                      ELSE I64(0))))))

\* exists(key): 1 when the key is in the keyspace; the lookup helps the rehash
exists(G, key) ==
    Let(hm_lookup(G.db, KeyNode(key), "entry_eq"), LAMBDA r :
        [g |-> [G EXCEPT !.db = r.hmap], n |-> IF r.ret.id # 0 THEN 1 ELSE 0])

\* The first loop of do_exists: cmd[i] is pushed to tmp unless some tmp[j] has
\* string_compare(cmd[i], tmp[j]) == 0
RECURSIVE exists_dedupe(_, _, _)
exists_dedupe(cmd, i, tmp) ==
    IF i > Len(cmd) THEN tmp
    ELSE Let(\E j \in 1..Len(tmp) :
                 (IF string_compare(cmd[i], tmp[j]) THEN 1 ELSE 0) = 0, LAMBDA found :
             exists_dedupe(cmd, i + 1, IF ~found THEN Append(tmp, cmd[i]) ELSE tmp))

\* The second loop of do_exists
RECURSIVE exists_count(_, _, _, _)
exists_count(G, tmp, i, n) ==
    IF i > Len(tmp) THEN [g |-> G, n |-> n]
    ELSE Let(exists(G, tmp[i]), LAMBDA e :
             exists_count(e.g, tmp, i + 1, n + e.n))

do_exists(G, cmd, out) ==
    Let(exists_count(G, exists_dedupe(cmd, 2, <<>>), 1, 0), LAMBDA c :
        Ret(c.g, out_int(out, I64(c.n))))

\* strtod of a score written as a decimal integer of at most nine digits (the
\* only scores sent): the value and the bytes consumed; never NaN
RECURSIVE strtod_digits(_, _, _)
strtod_digits(str, i, acc) ==
    IF i <= Len(str) /\ IsDigit(str[i])
    THEN strtod_digits(str, i + 1, [val |-> acc.val * 10 + (str[i] - 48), end |-> i])
    ELSE acc

strtod(str) ==
    Let(skip_space(str, 1), LAMBDA i :
    Let(i <= Len(str) /\ (str[i] = 45 \/ str[i] = 43), LAMBDA sign :
    Let(strtod_digits(str, IF sign THEN i + 1 ELSE i, [val |-> 0, end |-> 0]), LAMBDA d :
        [val |-> IF i <= Len(str) /\ str[i] = 45 THEN 0 - d.val ELSE d.val,
         end |-> d.end])))

str2dbl(str) == Let(strtod(str), LAMBDA r : [ok |-> r.end = Len(str), val |-> r.val])

do_zadd(G, cmd, out) ==
    Let(str2dbl(cmd[3]), LAMBDA p :
        IF ~p.ok THEN Ret(G, out_err(out, ERR_ARG, Msg_expected_fp_number))
        ELSE Let(KeyNode(cmd[2]), LAMBDA key :
             Let(hm_lookup(G.db, key, "entry_eq"), LAMBDA r :
             Let([G EXCEPT !.db = r.hmap], LAMBDA G1 :
                 IF r.ret.id # 0 /\ G.ents[r.ret.id].type # T_ZSET
                 THEN Ret(G1, out_err(out, ERR_TYPE, Msg_expect_zset_type))
                 ELSE Let(zset_add(IF r.ret.id = 0 THEN zset_init
                                   ELSE G.ents[r.ret.id].zset, cmd[4], p.val), LAMBDA a :
                          Ret(IF r.ret.id = 0
                              THEN Let(malloc(G.ents), LAMBDA ent :
                                       [G1 EXCEPT
                                          !.ents = (ent :> [entry_init EXCEPT
                                                               !.key = cmd[2],
                                                               !.type = T_ZSET,
                                                               !.zset = a.zset]) @@ @,
                                          !.db = hm_insert(@, [id |-> ent,
                                                               hcode |-> key.hcode,
                                                               key |-> cmd[2]])])
                              ELSE [G1 EXCEPT !.ents[r.ret.id].zset = a.zset],
                              out_int(out, I64(IF a.ret THEN 1 ELSE 0))))))))

\* [g, out, ok, ent]
expect_zset(G, out, s) ==
    Let(hm_lookup(G.db, KeyNode(s), "entry_eq"), LAMBDA r :
    Let([G EXCEPT !.db = r.hmap], LAMBDA G1 :
        IF r.ret.id = 0
        THEN [g |-> G1, out |-> out_nil(out), ok |-> FALSE, ent |-> 0]
        ELSE IF G.ents[r.ret.id].type # T_ZSET
        THEN [g |-> G1, out |-> out_err(out, ERR_TYPE, Msg_expect_zset_type),
              ok |-> FALSE, ent |-> r.ret.id]
        ELSE [g |-> G1, out |-> out, ok |-> TRUE, ent |-> r.ret.id]))

do_zrem(G, cmd, out) ==
    Let(expect_zset(G, out, cmd[2]), LAMBDA e :
        IF ~e.ok THEN Ret(e.g, e.out)
        ELSE Let(zset_pop(e.g.ents[e.ent].zset, cmd[3]), LAMBDA z :
                 [Ret([e.g EXCEPT !.ents[e.ent].zset =
                                      IF z.ret # 0 THEN [z.zset EXCEPT !.T = free(@, z.ret)]
                                      ELSE z.zset],
                      out_int(e.out, I64(IF z.ret # 0 THEN 1 ELSE 0))) EXCEPT !.ub = z.ub]))

do_zscore(G, cmd, out) ==
    Let(expect_zset(G, out, cmd[2]), LAMBDA e :
        IF ~e.ok THEN Ret(e.g, e.out)
        ELSE Let(zset_lookup(e.g.ents[e.ent].zset, cmd[3]), LAMBDA z :
             Let([e.g EXCEPT !.ents[e.ent].zset = z.zset], LAMBDA G1 :
                 IF z.ret # 0 THEN Ret(G1, out_dbl(e.out, z.zset.T[z.ret].score))
                 ELSE Ret(G1, out_nil(e.out)))))

\* The while loop of do_zquery: [out, n]
RECURSIVE zquery_loop(_, _, _, _, _)
zquery_loop(zset, znode, n, limit, out) ==
    IF znode # 0 /\ n < limit
    THEN zquery_loop(zset, znode_offset(zset, znode, 1), n + 2, limit,
                     out_dbl(out_str(out, zset.T[znode].name, Len(zset.T[znode].name)),
                             zset.T[znode].score))
    ELSE [out |-> out, n |-> n]

do_zquery(G, cmd, out) ==
    Let(str2dbl(cmd[3]), LAMBDA score :
    Let(str2int(cmd[5]), LAMBDA offset :
    Let(str2int(cmd[6]), LAMBDA limit :
        IF ~score.ok THEN Ret(G, out_err(out, ERR_ARG, Msg_invalid_score))
        ELSE IF ~offset.ok \/ ~limit.ok
        THEN Ret(G, out_err(out, ERR_ARG, Msg_invalid_offset_or_limit))
        ELSE Let(expect_zset(G, out, cmd[2]), LAMBDA e :
                 IF ~e.ok
                 THEN IF e.out[1] = SER_NIL THEN Ret(e.g, out_arr(<<>>, 0))
                      ELSE Ret(e.g, e.out)
                 ELSE IF IntOf(limit.val) <= 0 THEN Ret(e.g, out_arr(e.out, 0))
                 ELSE Let(e.g.ents[e.ent].zset, LAMBDA zset :
                      Let(znode_offset(zset, zset_query(zset, score.val, cmd[4]),
                                       IntOf(offset.val)), LAMBDA znode :
                      Let(begin_arr(e.out), LAMBDA b :
                      Let(zquery_loop(zset, znode, 0, IntOf(limit.val), b.out), LAMBDA l :
                          Ret(e.g, end_arr(l.out, b.ctx, l.n))))))))))

\* h_scan with cb_scan: out_str of the key of every node, bucket by bucket
RECURSIVE scan_chain(_, _, _)
scan_chain(chain, i, out) ==
    IF i > Len(chain) THEN out
    ELSE scan_chain(chain, i + 1, out_str(out, chain[i].key, Len(chain[i].key)))

RECURSIVE scan_tab(_, _, _)
scan_tab(tab, i, out) ==
    IF i > tab.mask THEN out
    ELSE scan_tab(tab, i + 1, scan_chain(tab.tab[i], 1, out))

h_scan(tab, out) == IF tab.size = 0 THEN out ELSE scan_tab(tab, 0, out)

do_keys(G, cmd, out) ==
    Ret(G, h_scan(G.db.ht2, h_scan(G.db.ht1, out_arr(out, hm_size(G.db)))))

\* do_request for the commands sent here (COMMAND is never sent)
\* The texts of commands.h, as bytes
Str_command == <<99, 111, 109, 109, 97, 110, 100>>
Str_list == <<108, 105, 115, 116>>
commands_list ==
    <<65, 108, 108, 32, 115, 117, 112, 112, 111, 114, 116, 101, 100, 32, 99, 111, 109, 109,
      97, 110, 100, 115, 58, 10, 49, 46, 32, 32, 103, 101, 116, 10, 50, 46, 32, 32, 115,
      101, 116, 10, 51, 46, 32, 32, 100, 101, 108, 10, 52, 46, 32, 32, 107, 101, 121, 115,
      10, 53, 46, 32, 32, 122, 97, 100, 100, 10, 54, 46, 32, 32, 122, 114, 101, 109, 10,
      55, 46, 32, 32, 122, 115, 99, 111, 114, 101, 10, 56, 46, 32, 32, 122, 113, 117, 101,
      114, 121, 10, 57, 46, 32, 32, 101, 120, 105, 115, 116, 115, 10, 49, 48, 46, 32, 101,
      120, 112, 105, 114, 101, 10, 49, 49, 46, 32, 116, 116, 108, 10, 49, 50, 46, 32, 99,
      111, 109, 109, 97, 110, 100, 10, 49, 51, 46, 32, 115, 104, 117, 116, 100, 111, 119,
      110, 10>>
commands_description ==
    <<65, 108, 108, 32, 115, 117, 112, 112, 111, 114, 116, 101, 100, 32, 99, 111, 109, 109,
      97, 110, 100, 115, 58, 10, 10, 49, 46, 32, 32, 103, 101, 116, 58, 32, 84, 104, 105,
      115, 32, 99, 111, 109, 109, 97, 110, 100, 32, 114, 101, 116, 114, 105, 101, 118, 101,
      115, 32, 116, 104, 101, 32, 118, 97, 108, 117, 101, 32, 97, 115, 115, 111, 99, 105,
      97, 116, 101, 100, 32, 119, 105, 116, 104, 10, 32, 32, 32, 32, 32, 116, 104, 101, 32,
      112, 114, 111, 118, 105, 100, 101, 100, 32, 107, 101, 121, 32, 102, 114, 111, 109,
      32, 116, 104, 101, 32, 100, 97, 116, 97, 98, 97, 115, 101, 46, 10, 32, 32, 32, 32,
      32, 73, 102, 32, 116, 104, 101, 32, 107, 101, 121, 32, 105, 115, 32, 102, 111, 117,
      110, 100, 44, 32, 105, 116, 32, 114, 101, 116, 117, 114, 110, 115, 32, 116, 104, 101,
      32, 97, 115, 115, 111, 99, 105, 97, 116, 101, 100, 32, 118, 97, 108, 117, 101, 46,
      10, 32, 32, 32, 32, 32, 79, 116, 104, 101, 114, 119, 105, 115, 101, 44, 32, 105, 116,
      32, 114, 101, 116, 117, 114, 110, 115, 32, 110, 105, 108, 46, 10, 10, 50, 46, 32, 32,
      115, 101, 116, 58, 32, 84, 104, 105, 115, 32, 99, 111, 109, 109, 97, 110, 100, 32,
      115, 101, 116, 115, 32, 116, 104, 101, 32, 118, 97, 108, 117, 101, 32, 97, 115, 115,
      111, 99, 105, 97, 116, 101, 100, 32, 119, 105, 116, 104, 32, 116, 104, 101, 10, 32,
      32, 32, 32, 32, 112, 114, 111, 118, 105, 100, 101, 100, 32, 107, 101, 121, 32, 105,
      110, 32, 116, 104, 101, 32, 100, 97, 116, 97, 98, 97, 115, 101, 46, 10, 32, 32, 32,
      32, 32, 73, 102, 32, 116, 104, 101, 32, 107, 101, 121, 32, 97, 108, 114, 101, 97,
      100, 121, 32, 101, 120, 105, 115, 116, 115, 44, 32, 105, 116, 32, 117, 112, 100, 97,
      116, 101, 115, 32, 116, 104, 101, 32, 97, 115, 115, 111, 99, 105, 97, 116, 101, 100,
      32, 118, 97, 108, 117, 101, 46, 10, 32, 32, 32, 32, 32, 79, 116, 104, 101, 114, 119,
      105, 115, 101, 44, 32, 105, 116, 32, 99, 114, 101, 97, 116, 101, 115, 32, 97, 32,
      110, 101, 119, 32, 107, 101, 121, 45, 118, 97, 108, 117, 101, 32, 112, 97, 105, 114,
      46, 10, 10, 51, 46, 32, 32, 100, 101, 108, 58, 32, 84, 104, 105, 115, 32, 99, 111,
      109, 109, 97, 110, 100, 32, 114, 101, 109, 111, 118, 101, 115, 32, 116, 104, 101, 32,
      107, 101, 121, 45, 118, 97, 108, 117, 101, 32, 112, 97, 105, 114, 32, 97, 115, 115,
      111, 99, 105, 97, 116, 101, 100, 32, 119, 105, 116, 104, 10, 32, 32, 32, 32, 32, 116,
      104, 101, 32, 112, 114, 111, 118, 105, 100, 101, 100, 32, 107, 101, 121, 32, 102,
      114, 111, 109, 32, 116, 104, 101, 32, 100, 97, 116, 97, 98, 97, 115, 101, 46, 10, 32,
      32, 32, 32, 32, 73, 102, 32, 116, 104, 101, 32, 107, 101, 121, 32, 105, 115, 32, 102,
      111, 117, 110, 100, 32, 97, 110, 100, 32, 115, 117, 99, 99, 101, 115, 115, 102, 117,
      108, 108, 121, 32, 114, 101, 109, 111, 118, 101, 100, 44, 32, 105, 116, 32, 114, 101,
      116, 117, 114, 110, 115, 32, 49, 46, 10, 32, 32, 32, 32, 32, 79, 116, 104, 101, 114,
      119, 105, 115, 101, 44, 32, 105, 116, 32, 114, 101, 116, 117, 114, 110, 115, 32, 48,
      46, 10, 10, 52, 46, 32, 32, 107, 101, 121, 115, 58, 32, 84, 104, 105, 115, 32, 99,
      111, 109, 109, 97, 110, 100, 32, 115, 101, 110, 100, 115, 32, 98, 97, 99, 107, 32,
      97, 110, 32, 97, 114, 114, 97, 121, 32, 111, 102, 32, 97, 108, 108, 32, 107, 101,
      121, 115, 32, 105, 110, 32, 116, 104, 101, 32, 100, 97, 116, 97, 98, 97, 115, 101,
      46, 10, 10, 53, 46, 32, 32, 122, 97, 100, 100, 58, 32, 84, 104, 105, 115, 32, 99,
      111, 109, 109, 97, 110, 100, 32, 97, 100, 100, 115, 32, 97, 32, 109, 101, 109, 98,
      101, 114, 32, 116, 111, 32, 97, 32, 115, 111, 114, 116, 101, 100, 32, 115, 101, 116,
      44, 10, 32, 32, 32, 32, 32, 111, 114, 32, 117, 112, 100, 97, 116, 101, 115, 32, 105,
      116, 115, 32, 115, 99, 111, 114, 101, 32, 105, 102, 32, 105, 116, 32, 97, 108, 114,
      101, 97, 100, 121, 32, 101, 120, 105, 115, 116, 115, 46, 10, 32, 32, 32, 32, 32, 84,
      104, 101, 32, 99, 111, 109, 109, 97, 110, 100, 32, 116, 97, 107, 101, 115, 32, 116,
      104, 114, 101, 101, 32, 97, 114, 103, 117, 109, 101, 110, 116, 115, 58, 32, 116, 104,
      101, 32, 110, 97, 109, 101, 32, 111, 102, 32, 116, 104, 101, 32, 115, 111, 114, 116,
      101, 100, 32, 115, 101, 116, 44, 10, 32, 32, 32, 32, 32, 116, 104, 101, 32, 115, 99,
      111, 114, 101, 32, 111, 102, 32, 116, 104, 101, 32, 109, 101, 109, 98, 101, 114, 44,
      32, 97, 110, 100, 32, 116, 104, 101, 32, 109, 101, 109, 98, 101, 114, 32, 105, 116,
      115, 101, 108, 102, 46, 10, 10, 54, 46, 32, 32, 122, 114, 101, 109, 58, 32, 84, 104,
      105, 115, 32, 99, 111, 109, 109, 97, 110, 100, 32, 114, 101, 109, 111, 118, 101, 115,
      32, 97, 32, 109, 101, 109, 98, 101, 114, 32, 102, 114, 111, 109, 32, 97, 32, 115,
      111, 114, 116, 101, 100, 32, 115, 101, 116, 46, 10, 32, 32, 32, 32, 32, 84, 104, 101,
      32, 99, 111, 109, 109, 97, 110, 100, 32, 116, 97, 107, 101, 115, 32, 116, 119, 111,
      32, 97, 114, 103, 117, 109, 101, 110, 116, 115, 58, 10, 32, 32, 32, 32, 32, 116, 104,
      101, 32, 110, 97, 109, 101, 32, 111, 102, 32, 116, 104, 101, 32, 115, 111, 114, 116,
      101, 100, 32, 115, 101, 116, 32, 97, 110, 100, 32, 116, 104, 101, 32, 109, 101, 109,
      98, 101, 114, 32, 116, 111, 32, 114, 101, 109, 111, 118, 101, 46, 10, 10, 55, 46, 32,
      32, 122, 115, 99, 111, 114, 101, 58, 32, 84, 104, 105, 115, 32, 99, 111, 109, 109,
      97, 110, 100, 32, 114, 101, 116, 114, 105, 101, 118, 101, 115, 32, 116, 104, 101, 32,
      115, 99, 111, 114, 101, 32, 111, 102, 32, 97, 32, 109, 101, 109, 98, 101, 114, 32,
      105, 110, 32, 97, 32, 115, 111, 114, 116, 101, 100, 32, 115, 101, 116, 46, 10, 32,
      32, 32, 32, 32, 84, 104, 101, 32, 99, 111, 109, 109, 97, 110, 100, 32, 116, 97, 107,
      101, 115, 32, 116, 119, 111, 32, 97, 114, 103, 117, 109, 101, 110, 116, 115, 58, 10,
      32, 32, 32, 32, 32, 116, 104, 101, 32, 110, 97, 109, 101, 32, 111, 102, 32, 116, 104,
      101, 32, 115, 111, 114, 116, 101, 100, 32, 115, 101, 116, 32, 97, 110, 100, 32, 116,
      104, 101, 32, 109, 101, 109, 98, 101, 114, 32, 116, 111, 32, 114, 101, 116, 114, 105,
      101, 118, 101, 32, 116, 104, 101, 32, 115, 99, 111, 114, 101, 32, 102, 111, 114, 46,
      10, 10, 56, 46, 32, 32, 122, 113, 117, 101, 114, 121, 58, 32, 84, 104, 105, 115, 32,
      99, 111, 109, 109, 97, 110, 100, 32, 114, 101, 116, 114, 105, 101, 118, 101, 115, 32,
      109, 101, 109, 98, 101, 114, 115, 32, 111, 102, 32, 97, 32, 115, 111, 114, 116, 101,
      100, 32, 115, 101, 116, 32, 98, 121, 32, 115, 99, 111, 114, 101, 46, 10, 32, 32, 32,
      32, 32, 84, 104, 101, 32, 99, 111, 109, 109, 97, 110, 100, 32, 116, 97, 107, 101,
      115, 32, 102, 105, 118, 101, 32, 97, 114, 103, 117, 109, 101, 110, 116, 115, 58, 10,
      32, 32, 32, 32, 32, 116, 104, 101, 32, 110, 97, 109, 101, 32, 111, 102, 32, 116, 104,
      101, 32, 115, 111, 114, 116, 101, 100, 32, 115, 101, 116, 44, 32, 116, 104, 101, 32,
      115, 99, 111, 114, 101, 32, 116, 111, 32, 113, 117, 101, 114, 121, 44, 10, 32, 32,
      32, 32, 32, 116, 104, 101, 32, 109, 101, 109, 98, 101, 114, 32, 116, 111, 32, 115,
      116, 97, 114, 116, 32, 102, 114, 111, 109, 44, 32, 116, 104, 101, 32, 111, 102, 102,
      115, 101, 116, 44, 32, 97, 110, 100, 32, 116, 104, 101, 32, 108, 105, 109, 105, 116,
      46, 10, 10, 57, 46, 32, 32, 101, 120, 105, 115, 116, 115, 58, 32, 84, 104, 105, 115,
      32, 99, 111, 109, 109, 97, 110, 100, 32, 99, 104, 101, 99, 107, 115, 32, 105, 102,
      32, 97, 32, 107, 101, 121, 32, 101, 120, 105, 115, 116, 115, 32, 105, 110, 32, 116,
      104, 101, 32, 100, 97, 116, 97, 98, 97, 115, 101, 46, 10, 32, 32, 32, 32, 32, 73,
      102, 32, 116, 104, 101, 32, 107, 101, 121, 32, 101, 120, 105, 115, 116, 115, 44, 32,
      105, 116, 32, 114, 101, 116, 117, 114, 110, 115, 32, 49, 46, 32, 79, 116, 104, 101,
      114, 119, 105, 115, 101, 44, 32, 105, 116, 32, 114, 101, 116, 117, 114, 110, 115, 32,
      48, 46, 10, 10, 49, 48, 46, 32, 101, 120, 112, 105, 114, 101, 58, 32, 84, 104, 105,
      115, 32, 99, 111, 109, 109, 97, 110, 100, 32, 115, 101, 116, 115, 32, 97, 32, 107,
      101, 121, 39, 115, 32, 116, 105, 109, 101, 32, 116, 111, 32, 108, 105, 118, 101, 32,
      105, 110, 32, 109, 105, 108, 108, 105, 115, 101, 99, 111, 110, 100, 115, 46, 10, 32,
      32, 32, 32, 32, 84, 104, 101, 32, 99, 111, 109, 109, 97, 110, 100, 32, 116, 97, 107,
      101, 115, 32, 116, 119, 111, 32, 97, 114, 103, 117, 109, 101, 110, 116, 115, 58, 10,
      32, 32, 32, 32, 32, 116, 104, 101, 32, 107, 101, 121, 32, 97, 110, 100, 32, 116, 104,
      101, 32, 116, 105, 109, 101, 32, 116, 111, 32, 108, 105, 118, 101, 32, 105, 110, 32,
      109, 105, 108, 108, 105, 115, 101, 99, 111, 110, 100, 115, 46, 10, 10, 49, 49, 46,
      32, 116, 116, 108, 58, 32, 84, 104, 105, 115, 32, 99, 111, 109, 109, 97, 110, 100,
      32, 103, 101, 116, 115, 32, 116, 104, 101, 32, 116, 105, 109, 101, 32, 116, 111, 32,
      108, 105, 118, 101, 32, 102, 111, 114, 32, 97, 32, 107, 101, 121, 46, 10, 32, 32, 32,
      32, 32, 84, 104, 101, 32, 99, 111, 109, 109, 97, 110, 100, 32, 116, 97, 107, 101,
      115, 32, 111, 110, 101, 32, 97, 114, 103, 117, 109, 101, 110, 116, 58, 32, 116, 104,
      101, 32, 107, 101, 121, 46, 10, 10, 49, 50, 46, 32, 99, 111, 109, 109, 97, 110, 100,
      58, 32, 84, 104, 105, 115, 32, 99, 111, 109, 109, 97, 110, 100, 32, 114, 101, 116,
      114, 105, 101, 118, 101, 115, 32, 116, 104, 101, 32, 100, 101, 115, 99, 114, 105,
      112, 116, 105, 111, 110, 32, 111, 102, 32, 97, 108, 108, 32, 99, 111, 109, 109, 97,
      110, 100, 115, 46, 10, 32, 32, 32, 32, 32, 73, 102, 32, 116, 104, 101, 32, 97, 114,
      103, 117, 109, 101, 110, 116, 32, 105, 115, 32, 39, 108, 105, 115, 116, 39, 44, 32,
      97, 108, 108, 32, 115, 117, 112, 112, 111, 114, 116, 101, 100, 32, 99, 111, 109, 109,
      97, 110, 100, 115, 32, 97, 114, 101, 32, 108, 105, 115, 116, 101, 100, 32, 105, 110,
      115, 116, 101, 97, 100, 46, 10, 10, 49, 51, 46, 32, 115, 104, 117, 116, 100, 111,
      119, 110, 58, 32, 84, 104, 105, 115, 32, 99, 111, 109, 109, 97, 110, 100, 32, 115,
      104, 117, 116, 115, 32, 100, 111, 119, 110, 32, 116, 104, 101, 32, 115, 101, 114,
      118, 101, 114, 46, 10, 10, 65, 108, 108, 32, 99, 111, 109, 109, 97, 110, 100, 115,
      32, 97, 114, 101, 32, 112, 114, 111, 99, 101, 115, 115, 101, 100, 32, 99, 97, 115,
      101, 45, 105, 110, 115, 101, 110, 115, 105, 116, 105, 118, 101, 108, 121, 46, 10>>

do_command(G, cmd, out) ==
    Let(IF Len(cmd) >= 2
        THEN IF string_case_compare_cstr(ptr_vector_at(cmd, 1), Str_list)
             THEN commands_list ELSE <<>>
        ELSE commands_description, LAMBDA tmp :
        Ret(G, out_str(out, tmp, Len(tmp))))

do_request(G, cmd, out, now) ==
    IF Len(cmd) = 1 /\ cmd_is(ptr_vector_at(cmd, 0), Str_keys) THEN do_keys(G, cmd, out)
    ELSE IF Len(cmd) = 2 /\ cmd_is(ptr_vector_at(cmd, 0), Str_get) THEN do_get(G, cmd, out)
    ELSE IF Len(cmd) = 3 /\ cmd_is(ptr_vector_at(cmd, 0), Str_set) THEN do_set(G, cmd, out)
    ELSE IF Len(cmd) = 2 /\ cmd_is(ptr_vector_at(cmd, 0), Str_del) THEN do_del(G, cmd, out, now)
    ELSE IF Len(cmd) = 3 /\ cmd_is(ptr_vector_at(cmd, 0), Str_expire) THEN do_expire(G, cmd, out, now)
    ELSE IF Len(cmd) = 2 /\ cmd_is(ptr_vector_at(cmd, 0), Str_pttl) THEN do_ttl(G, cmd, out, now)
    ELSE IF cmd_is(ptr_vector_at(cmd, 0), Str_exists) THEN do_exists(G, cmd, out)
    ELSE IF cmd_is(ptr_vector_at(cmd, 0), Str_command) THEN do_command(G, cmd, out)
    ELSE IF Len(cmd) = 4 /\ cmd_is(ptr_vector_at(cmd, 0), Str_zadd) THEN do_zadd(G, cmd, out)
    ELSE IF Len(cmd) = 3 /\ cmd_is(ptr_vector_at(cmd, 0), Str_zrem) THEN do_zrem(G, cmd, out)
    ELSE IF Len(cmd) = 3 /\ cmd_is(ptr_vector_at(cmd, 0), Str_zscore) THEN do_zscore(G, cmd, out)
    ELSE IF Len(cmd) = 6 /\ cmd_is(ptr_vector_at(cmd, 0), Str_zquery) THEN do_zquery(G, cmd, out)
    ELSE IF Len(cmd) = 1 /\ cmd_is(ptr_vector_at(cmd, 0), Str_shutdown)
    THEN [Ret(G, out_str(out, Msg_shutting_down, Len(Msg_shutting_down)))
             EXCEPT !.running = FALSE]
    ELSE Ret(G, out_err(out, ERR_UNKNOWN, Msg_Unknown_cmd))

-----------------------------------------------------------------------------
(* The hash map driven directly: insert (of an absent key), lookup and pop *)

HmPreload == 511     \* keys already inserted, one by one, in a large-map run
HmFresh == 2         \* further keys a large-map run may insert
HmSmall == 34        \* keys a run starting from the empty map may insert

\* What a dereference of nullptr can turn into: the process is killed, or the
\* optimiser takes the path for unreachable and the call returns nullptr.
UBOutcomes == {"killed", "unreachable"}

\* The nodes of these runs: the caller supplies hcode, and keys 2j and 2j + 1
\* are given the same one.
HmNode(k) == [id |-> k, hcode |-> <<k \div 2, 0, 0, 0>>, key |-> <<k>>]

\* The keys looked up and popped
HmProbes == {2, 100, 600}

\* hm_insert of the keys lo..hi in increasing order (halved, to keep the
\* evaluation shallow)
RECURSIVE HmInsertRange(_, _, _)
HmInsertRange(hm, lo, hi) ==
    IF lo > hi THEN hm
    ELSE IF lo = hi THEN hm_insert(hm, HmNode(lo))
    ELSE Let(HmInsertRange(hm, lo, (lo + hi) \div 2), LAMBDA half :
             IF hm_size(half) >= 0 THEN HmInsertRange(half, ((lo + hi) \div 2) + 1, hi)
             ELSE half)

HmPreloaded(n) == HmInsertRange(init_hmap, 1, n)

\* The last call: its key, whether a rehash was in progress when it was made,
\* whether the reference map held the key, and the node it returned (0: nullptr)
HmNoCall == [op |-> "none", key |-> 0, rehash |-> FALSE, expect |-> FALSE, ret |-> 0]

HmCall(op, k, ret) ==
    [op |-> op, key |-> k, rehash |-> hmap.ht2.tab # <<>>, expect |-> k \in hm_ref,
     ret |-> ret]

\* A command before encoding
Cmd0 == [op |-> "none", key |-> <<>>, val |-> <<>>, keys |-> <<>>, score |-> 0,
         name |-> <<>>, off |-> 0, lim |-> 0]

\* The variables of the other runs, at rest
NoCmd == [a |-> Cmd0, out |-> <<>>, expect |-> <<>>]
DataIdle == db = init_hmap /\ ents = <<>> /\ heap = <<>> /\ crashed = FALSE
CmdIdle == ref = <<>> /\ last = NoCmd /\ cmd_limit = 0
HmIdle ==
    /\ hmap = init_hmap /\ hm_ref = {} /\ hm_last = HmNoCall
    /\ hm_crashed = FALSE /\ hm_limit = 0
LoopOff == [phase |-> "off", ready |-> {}, lready |-> FALSE, wake |-> 0, running |-> FALSE,
            exit_code |-> 0 - 1]
NoLate == [valid |-> FALSE, out |-> <<>>]
NoEvict == [valid |-> FALSE, state |-> 0, pending |-> FALSE, early |-> FALSE]
GhNone == [deadline |-> <<>>, late_get |-> NoLate, evicted |-> NoEvict]
SrvIdle ==
    /\ conns = <<>> /\ idle_conns = <<>> /\ clock = 0 /\ loop = LoopOff
    /\ net = <<>> /\ backlog = <<>> /\ gh = GhNone

\* The last sorted-set call: the member, the score passed, whether the
\* reference held the member and with which score, the node the hash index
\* held for it before the call, what the call returned (a node, or 1 for true
\* and 0 for false or nullptr), and whether the call killed the process
-----------------------------------------------------------------------------
(* The ring buffer: src/data_structures/queue/deque_c.c.  data is the array  *)
(* of capacity pointers, indexed from 0; a cell never written, and a cell    *)
(* read from a block that was freed and used again, holds Indeterminate.     *)

Indeterminate == 0 - 2

create_deque ==
    [data |-> [i \in 0..15 |-> Indeterminate], capacity |-> 16, size |-> 0,
     front |-> SIZE_MAX, back |-> SIZE_MAX]

deque_empty(deque) == deque.size = 0
deque_full(deque) == deque.size = deque.capacity
deque_front(deque) == IF deque_empty(deque) THEN 0 ELSE deque.data[deque.front]

\* What realloc does with the block of data: it grows the block where it is
\* (new_data is data), or it copies the block to a new place and frees it.
\* The loops of deque_resize read deque->data after the realloc: the block
\* they write to in the first case, freed memory in the second, which still
\* holds the old pointers or has been used again.
ReallocOutcomes == {"inplace", "moved_intact", "moved_reused"}

\* deque is full.  With front > back the loops copy data[front..capacity-1]
\* and then data[0..back] to new_data[0..]; when new_data is data, cell k of
\* the result is the old cell front + (k mod (capacity - front)), because the
\* cells read by the second loop were written before they are read.
deque_resize(deque, how) ==
    LET cap == deque.capacity
        c   == cap - deque.front
    IN  IF deque.front > deque.back
        THEN [deque EXCEPT
                !.data = [k \in 0..(2 * cap - 1) |->
                             IF k >= cap THEN Indeterminate
                             ELSE IF how = "inplace" THEN deque.data[deque.front + (k % c)]
                             ELSE IF how = "moved_reused" THEN Indeterminate
                             ELSE IF k < c THEN deque.data[deque.front + k]
                             ELSE deque.data[k - c]],
                !.front = 0, !.back = cap - 1, !.capacity = 2 * cap]
        ELSE [deque EXCEPT
                !.data = [k \in 0..(2 * cap - 1) |->
                             IF k >= cap THEN Indeterminate ELSE deque.data[k]],
                !.capacity = 2 * cap]

deque_push_back(deque, data, how) ==
    LET d1 == IF deque_full(deque) THEN deque_resize(deque, how) ELSE deque
        d2 == IF deque_empty(d1) THEN [d1 EXCEPT !.front = 0, !.back = 0]
              ELSE [d1 EXCEPT !.back = (d1.back + 1) % d1.capacity]
    IN  [d2 EXCEPT !.data[d2.back] = data, !.size = @ + 1]

\* [deque, ret]
deque_pop_front(deque) ==
    IF deque_empty(deque) THEN [deque |-> deque, ret |-> 0]
    ELSE [deque |-> [deque EXCEPT
                       !.front = IF deque.front = deque.back THEN SIZE_MAX
                                 ELSE (deque.front + 1) % deque.capacity,
                       !.back = IF deque.front = deque.back THEN SIZE_MAX ELSE @,
                       !.size = @ - 1],
          ret |-> deque.data[deque.front]]

\* wrapped: what realloc did whenever the deque grew with front > back
DqNoCall == [op |-> "none", data |-> 0, ret |-> 0, expect |-> 0, n |-> 0, wrapped |-> {}]
DqIdle == dq = create_deque /\ dq_ref = <<>> /\ dq_last = DqNoCall

ZsNoCall == [op |-> "none", name |-> <<>>, score |-> 0, had |-> FALSE, old |-> 0,
             before |-> 0, ret |-> 0, rehash |-> FALSE, killed |-> FALSE]
ZsIdle == zs = zset_init /\ zs_ref = <<>> /\ zs_last = ZsNoCall
\* The pool before thread_pool_init
TpSlots == {1, 2}
TpMainIdle == [pc |-> "idle", slot |-> 0, joined |-> 0]
TpNoHist == [submitted |-> <<>>, executed |-> <<>>, killed |-> FALSE]
PoolFresh ==
    /\ pool = [queue |-> create_deque, stop |-> FALSE]
    /\ tp_main = TpMainIdle
    /\ tp_stack = [a \in TpSlots |-> Indeterminate]
    /\ tp_hist = TpNoHist
PoolIdle == PoolFresh /\ threads = <<>>

\* Container c; of src/tests/test_avl.cpp, and the empty reference
Container == [root |-> 0, T |-> <<>>]
AvlNoCall == [op |-> "none", val |-> 0, ret |-> FALSE, children |-> 0, was_root |-> FALSE,
              root |-> 0]
AvlIdle == avlc = Container /\ avl_ref = <<>> /\ avl_last = AvlNoCall

LibIdle == ZsIdle /\ DqIdle /\ PoolIdle /\ AvlIdle

HmInit ==
    /\ \E n \in {0, HmPreload} :
        /\ hmap = HmPreloaded(n)
        /\ hm_ref = 1..n
        /\ hm_limit = IF n = 0 THEN HmSmall ELSE n + HmFresh
    /\ hm_last = HmNoCall
    /\ hm_crashed = FALSE
    /\ DataIdle /\ CmdIdle /\ SrvIdle /\ LibIdle

\* The next key never inserted so far (probes are the only keys popped)
HmNextFresh ==
    LET absent == {k \in 1..hm_limit : k \notin hm_ref /\ k \notin HmProbes}
    IN  IF absent = {} THEN {} ELSE {CHOOSE k \in absent : \A j \in absent : k <= j}

\* The table that holds key k: "ht1", "ht2" or "none"
HmWhere(k) ==
    IF h_lookup(hmap.ht1, HmNode(k), "entry_eq").idx # 0 THEN "ht1"
    ELSE IF h_lookup(hmap.ht2, HmNode(k), "entry_eq").idx # 0 THEN "ht2"
    ELSE "none"

\* The callers of hm_insert (do_set, do_zadd, zset_add) insert a key only after
\* a lookup of it has returned nullptr
HmInsert(k) ==
    /\ ~hm_crashed
    /\ k \notin hm_ref /\ HmWhere(k) = "none"
    /\ hmap' = hm_insert(hmap, HmNode(k))
    /\ hm_ref' = hm_ref \cup {k}
    /\ hm_last' = HmCall("insert", k, 0)
    /\ UNCHANGED <<hm_crashed, hm_limit, data_vars, cmd_vars, srv_vars, lib_vars>>

HmLookup(k) ==
    /\ ~hm_crashed
    /\ \E r \in {hm_lookup(hmap, HmNode(k), "entry_eq")} :
           /\ hmap' = r.hmap
           /\ hm_last' = HmCall("lookup", k, r.ret.id)
    /\ UNCHANGED <<hm_ref, hm_crashed, hm_limit, data_vars, cmd_vars, srv_vars, lib_vars>>

HmPop(k) ==
    /\ ~hm_crashed
    /\ \E r \in {hm_pop(hmap, HmNode(k), "entry_eq")} :
           /\ hmap' = r.hmap
           /\ hm_last' = HmCall("pop", k, r.ret.id)
           /\ IF r.ub
              THEN \E o \in UBOutcomes : hm_crashed' = (o = "killed")
              ELSE hm_crashed' = FALSE
    /\ hm_ref' = hm_ref \ {k}
    /\ UNCHANGED <<hm_limit, data_vars, cmd_vars, srv_vars, lib_vars>>

HmNext ==
    \/ \E k \in HmNextFresh \cup (HmProbes \cap (1..hm_limit)) : HmInsert(k)
    \/ \E k \in HmProbes : HmLookup(k)
    \/ \E k \in HmProbes : HmPop(k)

SpecHM == HmInit /\ [][HmNext]_vars

\* The keys whose lookup is watched in every state: the probes and one key in
\* every HmStride
HmStride == 37
HmWatched == HmProbes \cup {k \in 1..hm_limit : k % HmStride = 0}

\* C6: insert, lookup and pop behave as a reference map: no call kills the
\* process, lookup and pop return the entry iff the reference map holds the
\* key, and hm_size is the size of the reference map.
C6_RefinesReferenceMap ==
    /\ ~hm_crashed
    /\ hm_size(hmap) = Cardinality(hm_ref)
    /\ hm_last.op \in {"lookup", "pop"} =>
           hm_last.ret = (IF hm_last.expect THEN hm_last.key ELSE 0)

\* C7: hm_pop of a present key, called while a rehash is in progress, returns
\* the entry of that key, leaves the logical size one smaller and the key
\* absent from both tables.
C7_PopDuringRehash ==
    (hm_last.op = "pop" /\ hm_last.rehash /\ hm_last.expect) =>
        /\ ~hm_crashed
        /\ hm_last.ret = hm_last.key
        /\ hm_size(hmap) = Cardinality(hm_ref)
        /\ HmWhere(hm_last.key) = "none"

\* C8: hm_lookup finds every key inserted and not popped, in every state and
\* so at every step of a rehash, whichever table holds the key; and the last
\* lookup of such a key returned its entry.
C8_Lookupable ==
    ~hm_crashed =>
        /\ \A k \in hm_ref \cap HmWatched :
               hm_lookup(hmap, HmNode(k), "entry_eq").ret.id = k
        /\ (hm_last.op = "lookup" /\ hm_last.expect) => hm_last.ret = hm_last.key

\* C8 witness: a rehash is in progress, the last call looked up and found a
\* key that still sits in the retiring table, and another watched key already
\* sits in the current table.
C8_Witness ==
    /\ ~hm_crashed
    /\ hmap.ht2.size > 0
    /\ hm_last.op = "lookup" /\ hm_last.rehash /\ hm_last.expect
    /\ hm_last.ret = hm_last.key
    /\ HmWhere(hm_last.key) = "ht2"
    /\ \E k \in hm_ref \cap HmWatched : HmWhere(k) = "ht1"


-----------------------------------------------------------------------------
(* Commands dispatched one at a time by do_request.  g_data is global and    *)
(* do_request takes no connection: the command of any connection acts on the *)
(* same keyspace.  A command is sent as the client writes it (Encode) and    *)
(* its response is compared with the one the reference keyspace gives.       *)

\* The decimal text of an integer, as a client writes it
RECURSIVE Dec(_)
Dec(n) ==
    IF n < 0 THEN <<45>> \o Dec(0 - n)
    ELSE IF n < 10 THEN <<48 + n>>
    ELSE Dec(n \div 10) \o <<48 + (n % 10)>>

\* The argument strings of a command
Encode(a) ==
    CASE a.op = "get" -> <<Str_get, a.key>>
      [] a.op = "set" -> <<Str_set, a.key, a.val>>
      [] a.op = "del" -> <<Str_del, a.key>>
      [] a.op = "exists" -> <<Str_exists>> \o a.keys
      [] a.op = "expire" -> <<Str_expire, a.key, Dec(a.lim)>>
      [] a.op = "zadd" -> <<Str_zadd, a.key, Dec(a.score), a.name>>
      [] a.op = "zquery" -> <<Str_zquery, a.key, Dec(a.score), a.name, Dec(a.off), Dec(a.lim)>>
      [] a.op = "raw" -> a.keys

\* The responses of the protocol
Resp_NIL == <<SER_NIL>>
Resp_STR(v) == <<SER_STR>> \o U32Bytes(Len(v)) \o v
Resp_INT(n) == <<SER_INT>> \o I64Bytes(I64(n))
Resp_DBL(x) == <<SER_DBL>> \o DblBytes(x)

RECURSIVE Resp_Pairs(_, _, _)
Resp_Pairs(tuples, i, n) ==
    IF n = 0 THEN <<>>
    ELSE Resp_STR(tuples[i][2]) \o Resp_DBL(tuples[i][1]) \o Resp_Pairs(tuples, i + 1, n - 1)

\* Byte strings in lexicographic order, and (score, member) tuples in theirs
RECURSIVE BytesLess(_, _)
BytesLess(x, y) ==
    IF x = <<>> THEN y # <<>>
    ELSE IF y = <<>> THEN FALSE
    ELSE IF x[1] # y[1] THEN x[1] < y[1]
    ELSE BytesLess(Tail(x), Tail(y))

TupleLess(t, u) == t[1] < u[1] \/ (t[1] = u[1] /\ BytesLess(t[2], u[2]))

\* The tuples of a reference sorted set z (a function from member to score),
\* in ascending order
RefTuples(z) ==
    LET S == {<<z[m], m>> : m \in DOMAIN z}
    IN  [i \in 1..Cardinality(S) |->
            CHOOSE t \in S : Cardinality({u \in S : TupleLess(u, t)}) = i - 1]

\* The reference keyspace maps a key to [type, value, z]: [ref, out]
RefRequest(R, a) ==
    CASE a.op = "get" ->
           [ref |-> R, out |-> IF a.key \in DOMAIN R THEN Resp_STR(R[a.key].value)
                               ELSE Resp_NIL]
      [] a.op = "set" ->
           [ref |-> [k \in DOMAIN R \cup {a.key} |->
                        IF k = a.key THEN [type |-> T_STR, value |-> a.val, z |-> <<>>]
                        ELSE R[k]],
            out |-> Resp_NIL]
      [] a.op = "del" ->
           [ref |-> [k \in DOMAIN R \ {a.key} |-> R[k]],
            out |-> Resp_INT(IF a.key \in DOMAIN R THEN 1 ELSE 0)]
      [] a.op = "exists" ->
           [ref |-> R,
            out |-> Resp_INT(Cardinality({a.keys[i] : i \in 1..Len(a.keys)}
                                         \cap DOMAIN R))]
      [] a.op = "zadd" ->
           LET z == IF a.key \in DOMAIN R THEN R[a.key].z ELSE <<>>
           IN  [ref |-> [k \in DOMAIN R \cup {a.key} |->
                            IF k = a.key
                            THEN [type |-> T_ZSET, value |-> <<>>,
                                  z |-> [m \in DOMAIN z \cup {a.name} |->
                                            IF m = a.name THEN a.score ELSE z[m]]]
                            ELSE R[k]],
                out |-> Resp_INT(IF a.name \in DOMAIN z THEN 0 ELSE 1)]
      [] a.op = "zquery" ->
           LET tuples == IF a.key \in DOMAIN R THEN RefTuples(R[a.key].z) ELSE <<>>
               N      == Len(tuples)
               first  == Cardinality({i \in 1..N :
                                         TupleLess(tuples[i], <<a.score, a.name>>)})
               pos    == first + a.off
               n      == IF a.lim <= 0 \/ first >= N \/ pos < 0 \/ pos >= N THEN 0
                         ELSE Min(a.lim, N - pos)
           IN  [ref |-> R,
                out |-> <<SER_ARR>> \o U32Bytes(2 * n) \o Resp_Pairs(tuples, pos + 1, n)]

G_data == [db |-> db, ents |-> ents, heap |-> heap]

\* One command through do_request, at time 0 of the monotonic clock
Dispatch(a) ==
    /\ ~crashed
    /\ \E r \in {do_request(G_data, Encode(a), <<>>, 0)} :
       \E e \in {RefRequest(ref, a)} :
           /\ \E o \in (IF r.ub THEN UBOutcomes ELSE {"defined"}) :
                 IF o = "killed"
                 THEN /\ crashed' = TRUE
                      /\ last' = [a |-> a, out |-> <<>>, expect |-> e.out]
                      /\ UNCHANGED <<db, ents, heap>>
                 ELSE /\ crashed' = FALSE
                      /\ last' = [a |-> a, out |-> r.out, expect |-> e.out]
                      /\ db' = r.g.db /\ ents' = r.g.ents /\ heap' = r.g.heap
           /\ ref' = e.ref
    /\ UNCHANGED <<cmd_limit, lib_vars, hm_vars, srv_vars>>

-----------------------------------------------------------------------------
(* GET, SET, DEL and EXISTS on string keys *)

KvPreload == 511     \* keys already SET, one by one, in a large-keyspace run
KvFresh == 1         \* further keys a large-keyspace run may create
KvSmall == 4         \* keys a run starting from the empty keyspace may create

\* The i-th key: two bytes
KvKey(i) == <<i \div 256, i % 256>>

\* The keys read, overwritten and deleted; the values written
KvProbes == {1, 600}
KvVals == {<<118>>, <<119, 119>>}
KvExistsArgs == {<<1, 1, 3>>, <<1, 3>>}

KvSet(i, v) == [Cmd0 EXCEPT !.op = "set", !.key = KvKey(i), !.val = v]

\* SET of the keys lo..hi in increasing order through do_request (halved, to
\* keep the evaluation shallow)
RECURSIVE KvSetRange(_, _, _)
KvSetRange(G, lo, hi) ==
    IF lo > hi THEN G
    ELSE IF lo = hi THEN do_request(G, Encode(KvSet(lo, <<118>>)), <<>>, 0).g
    ELSE Let(KvSetRange(G, lo, (lo + hi) \div 2), LAMBDA half :
             IF hm_size(half.db) >= 0 THEN KvSetRange(half, ((lo + hi) \div 2) + 1, hi)
             ELSE half)

KvPreloaded(n) == KvSetRange([db |-> init_hmap, ents |-> <<>>, heap |-> <<>>], 1, n)

KvInit ==
    /\ \E n \in {0, KvPreload} :
        /\ \E G \in {KvPreloaded(n)} : db = G.db /\ ents = G.ents /\ heap = G.heap
        /\ ref = [k \in {KvKey(i) : i \in 1..n} |->
                     [type |-> T_STR, value |-> <<118>>, z |-> <<>>]]
        /\ cmd_limit = IF n = 0 THEN KvSmall ELSE n + KvFresh
    /\ crashed = FALSE
    /\ last = NoCmd
    /\ HmIdle /\ SrvIdle /\ LibIdle

\* The next key never SET so far (probes are the only keys deleted)
KvNextFresh ==
    LET absent == {i \in 1..cmd_limit : KvKey(i) \notin DOMAIN ref /\ i \notin KvProbes}
    IN  IF absent = {} THEN {} ELSE {CHOOSE i \in absent : \A j \in absent : i <= j}

KvCmds ==
    {KvSet(i, <<118>>) : i \in KvNextFresh}
    \cup {KvSet(i, v) : i \in KvProbes \cap (1..cmd_limit), v \in KvVals}
    \cup {[Cmd0 EXCEPT !.op = "get", !.key = KvKey(i)] : i \in KvProbes}
    \cup {[Cmd0 EXCEPT !.op = "del", !.key = KvKey(i)] : i \in KvProbes}
    \cup {[Cmd0 EXCEPT !.op = "exists", !.keys = [j \in 1..Len(l) |-> KvKey(l[j])]] :
             l \in KvExistsArgs}

KvNext == \E a \in KvCmds : Dispatch(a)

SpecKV == KvInit /\ [][KvNext]_vars

\* C1: every GET, SET and DEL is answered, and answered as the reference map
\* from key to byte string answers it.
C1_RefinesReferenceMap ==
    last.a.op \in {"get", "set", "del"} => (~crashed /\ last.out = last.expect)

\* C9: EXISTS answers INT n, n the number of distinct keys of its argument
\* list that are present.
C9_ExistsCountsDistinct ==
    (last.a.op = "exists" /\ ~crashed) => last.out = last.expect

-----------------------------------------------------------------------------
(* ZADD and ZQUERY on one sorted set *)

ZKey == <<122>>
ZMissing == <<121>>
ZNames == {<<97>>, <<98>>, <<99>>}
ZScores == {1, 2}
\* The queries sent: <<s, m, off, lim>>
ZQueries ==
    {<<1, <<>>, 0, 0>>, <<1, <<>>, 0, 1>>, <<1, <<>>, 0, 2>>, <<1, <<>>, 1, 2>>,
     <<1, <<>>, 0 - 1, 1>>, <<1, <<98>>, 0, 2>>, <<1, <<98>>, 0 - 1, 2>>,
     <<2, <<>>, 0, 3>>, <<2, <<>>, 1, 1>>, <<1, <<>>, 3, 1>>}

ZInit ==
    /\ DataIdle
    /\ ref = <<>>
    /\ last = NoCmd
    /\ cmd_limit = 0
    /\ HmIdle /\ SrvIdle /\ LibIdle

ZCmds ==
    {[Cmd0 EXCEPT !.op = "zadd", !.key = ZKey, !.score = x, !.name = m] :
        x \in ZScores, m \in ZNames}
    \cup {[Cmd0 EXCEPT !.op = "zquery", !.key = ZKey, !.score = q[1], !.name = q[2],
                       !.off = q[3], !.lim = q[4]] : q \in ZQueries}
    \cup {[Cmd0 EXCEPT !.op = "zquery", !.key = ZMissing, !.score = 1, !.lim = 2]}

ZNext == \E a \in ZCmds : Dispatch(a)

SpecZ == ZInit /\ [][ZNext]_vars

\* C10: ZQUERY answers the array of the (member, score) pairs of up to lim
\* consecutive tuples in ascending order, from the tuple off positions after
\* the first one >= (s, m); empty when lim <= 0, when that position is out of
\* range and when the key is missing.
C10_ZQueryPairs ==
    last.a.op = "zquery" => last.out = last.expect

-----------------------------------------------------------------------------
(* Connections, the event loop and the timers: src/server.c                  *)
(*                                                                           *)
(* A socket is the pair of byte queues between a client and the server: rx   *)
(* holds what the client sent and the server has not read, tx what the       *)
(* server wrote and the client has not read.  The kernel takes at most       *)
(* SndBuf bytes of tx; eof is the client's close.  Handlers take no time:    *)
(* the clock moves only while main is blocked in poll.                       *)

k_max_msg == 4096
k_max_args == 1024
STATE_REQ == 0
STATE_RES == 1
STATE_END == 2
k_idle_timeout_ms == 5 * 1000
k_max_works == 2000
\* UINT64_MAX, the "no timer" value of next_timer
UINT64_MAX == <<Limb - 1, Limb - 1, Limb - 1, Limb - 1>>
\* The uint32_t that next_timer returns for a uint64_t, as main's (int) reads it
U32Int(a) == IF a[2] < Limb \div 2 THEN a[1] + Limb * a[2] ELSE a[1] + Limb * (a[2] - Limb)
\* The first descriptor accept answers: 0, 1, 2 are open and 3 is the listener
FirstFd == 4

SndBuf == 8            \* bytes of a socket's send queue
MaxClock == 6000000    \* the clock does not move past this many microseconds

EAGAIN == 0 - 1

\* conn_init and the assignments of accept_new_conn; rbuf_size is Len(rbuf),
\* wbuf_size is Len(wbuf); peer names the client at the other end
conn_init(fd, now, peer) ==
    [fd |-> fd, state |-> STATE_REQ, idle_start |-> now, rbuf |-> <<>>,
     wbuf |-> <<>>, wbuf_sent |-> 0, peer |-> peer]

\* read on a non-blocking socket: at most cap of the bytes queued; -1 (EAGAIN)
\* when none is queued, 0 once the client has closed
read(sock, cap) ==
    IF sock.rx # <<>>
    THEN Let(Min(Len(sock.rx), cap), LAMBDA n :
             [rv |-> n, data |-> SubSeq(sock.rx, 1, n),
              sock |-> [sock EXCEPT !.rx = SubSeq(@, n + 1, Len(@))]])
    ELSE [rv |-> IF sock.eof THEN 0 ELSE EAGAIN, data |-> <<>>, sock |-> sock]

\* write on a non-blocking socket: as many bytes as the send queue has room
\* for; -1 (EAGAIN) when it has none
write(sock, buf) ==
    Let(Min(Len(buf), SndBuf - Len(sock.tx)), LAMBDA n :
        IF n <= 0 THEN [rv |-> EAGAIN, sock |-> sock]
        ELSE [rv |-> n, sock |-> [sock EXCEPT !.tx = @ \o SubSeq(buf, 1, n)]])

\* The handlers of a connection act on X = [conn, sock, g, gh, ub, running,
\* now]: the Conn, its socket, g_data, the history, whether a null pointer was
\* dereferenced, g_running, and the clock.  A bool-returning handler answers
\* [x, ret].

\* The same handler, except that a partial write does not advance wbuf_sent
try_flush_buffer_resend(X) ==
    Let(write(X.sock, SubSeq(X.conn.wbuf, X.conn.wbuf_sent + 1, Len(X.conn.wbuf))),
        LAMBDA w :
        IF w.rv < 0 THEN [x |-> X, ret |-> FALSE]
        ELSE IF X.conn.wbuf_sent + w.rv = Len(X.conn.wbuf)
        THEN [x |-> [X EXCEPT !.sock = w.sock, !.conn.state = STATE_REQ,
                              !.conn.wbuf_sent = 0, !.conn.wbuf = <<>>],
              ret |-> FALSE]
        ELSE [x |-> [X EXCEPT !.sock = w.sock], ret |-> TRUE])

\* The same handler, except that it leaves STATE_RES after any write
try_flush_buffer_early(X) ==
    Let(write(X.sock, SubSeq(X.conn.wbuf, X.conn.wbuf_sent + 1, Len(X.conn.wbuf))),
        LAMBDA w :
        IF w.rv < 0 THEN [x |-> X, ret |-> FALSE]
        ELSE [x |-> [X EXCEPT !.sock = w.sock, !.conn.state = STATE_REQ,
                              !.conn.wbuf_sent = 0, !.conn.wbuf = <<>>],
              ret |-> FALSE])

try_flush_buffer(X) ==
    Let(write(X.sock, SubSeq(X.conn.wbuf, X.conn.wbuf_sent + 1, Len(X.conn.wbuf))),
        LAMBDA w :
        IF w.rv < 0 THEN [x |-> X, ret |-> FALSE]
        ELSE IF X.conn.wbuf_sent + w.rv = Len(X.conn.wbuf)
        THEN [x |-> [X EXCEPT !.sock = w.sock, !.conn.state = STATE_REQ,
                              !.conn.wbuf_sent = 0, !.conn.wbuf = <<>>],
              ret |-> FALSE]
        ELSE [x |-> [X EXCEPT !.sock = w.sock, !.conn.wbuf_sent = @ + w.rv],
              ret |-> TRUE])

RECURSIVE state_res(_)
state_res(X) ==
    Let(try_flush_buffer(X), LAMBDA r : IF r.ret THEN state_res(r.x) ELSE r.x)

\* The loop of parse_req without its check for trailing data
RECURSIVE parse_args_lenient(_, _, _, _)
parse_args_lenient(data, n, pos, out) ==
    IF n = 0 THEN [ok |-> TRUE, cmd |-> out]
    ELSE IF pos + 4 > Len(data) THEN [ok |-> FALSE, cmd |-> out]
    ELSE Let(U32Read(SubSeq(data, pos + 1, pos + 4)), LAMBDA sz :
             IF pos + 4 + sz > Len(data) THEN [ok |-> FALSE, cmd |-> out]
             ELSE parse_args_lenient(data, n - 1, pos + 4 + sz,
                                     Append(out, SubSeq(data, pos + 5, pos + 4 + sz))))

\* The loop of parse_req: n arguments are left, pos is the offset in data
RECURSIVE parse_args(_, _, _, _)
parse_args(data, n, pos, out) ==
    IF n = 0 THEN [ok |-> pos = Len(data), cmd |-> out]
    ELSE IF pos + 4 > Len(data) THEN [ok |-> FALSE, cmd |-> out]
    ELSE Let(U32Read(SubSeq(data, pos + 1, pos + 4)), LAMBDA sz :
             IF pos + 4 + sz > Len(data) THEN [ok |-> FALSE, cmd |-> out]
             ELSE parse_args(data, n - 1, pos + 4 + sz,
                             Append(out, SubSeq(data, pos + 5, pos + 4 + sz))))

parse_req(data) ==
    IF Len(data) < 4 THEN [ok |-> FALSE, cmd |-> <<>>]
    ELSE Let(U32Read(SubSeq(data, 1, 4)), LAMBDA n :
             IF n > k_max_args THEN [ok |-> FALSE, cmd |-> <<>>]
             ELSE parse_args(data, n, 4, <<>>))

SetKey(f, k, v) == [j \in DOMAIN f \cup {k} |-> IF j = k THEN v ELSE f[j]]
DropKey(f, k) == [j \in DOMAIN f \ {k} |-> f[j]]

\* A TTL beyond every clock value of a run is recorded as this one
FarMs == 1048576

\* The history of a dispatch at time now: an EXPIRE answered INT 1 grants the
\* deadline now + ms (or drops it, for ms < 0), a SET drops it, and a GET at or
\* after the deadline granted for its key is recorded with its response
Note(h, cmd, out, now) ==
    IF Len(cmd) = 3 /\ cmd_is(cmd[1], Str_expire)
    THEN IF out # out_int(<<>>, I64(1)) THEN h
         ELSE Let(IntOf(str2int(cmd[3]).val), LAMBDA ms :
                  [h EXCEPT !.deadline = IF ms >= 0
                                         THEN SetKey(@, cmd[2], now + Min(ms, FarMs) * 1000)
                                         ELSE DropKey(@, cmd[2])])
    ELSE IF Len(cmd) = 3 /\ cmd_is(cmd[1], Str_set)
    THEN [h EXCEPT !.deadline = DropKey(@, cmd[2])]
    ELSE IF Len(cmd) = 2 /\ cmd_is(cmd[1], Str_get)
    THEN [h EXCEPT !.late_get =
             IF cmd[2] \in DOMAIN h.deadline /\ now >= h.deadline[cmd[2]]
             THEN [valid |-> TRUE, out |-> out] ELSE NoLate]
    ELSE h

\* try_one_request without the test of len against k_max_msg
try_one_request_no_limit(X) ==
    IF Len(X.conn.rbuf) < 4 THEN [x |-> X, ret |-> FALSE]
    ELSE Let(U32Read(SubSeq(X.conn.rbuf, 1, 4)), LAMBDA len :
         IF 4 + len > Len(X.conn.rbuf) THEN [x |-> X, ret |-> FALSE]
         ELSE Let(parse_req(SubSeq(X.conn.rbuf, 5, 4 + len)), LAMBDA p :
              IF ~p.ok
              THEN [x |-> [X EXCEPT !.conn.state = STATE_END], ret |-> FALSE]
              ELSE Let(do_request(X.g, p.cmd, <<>>, X.now), LAMBDA r :
                   Let(state_res(
                         [X EXCEPT !.g = r.g,
                                   !.conn.wbuf = U32Bytes(Len(r.out)) \o r.out,
                                   !.conn.rbuf = SubSeq(@, 5 + len, Len(@)),
                                   !.conn.state = STATE_RES]), LAMBDA X1 :
                       [x |-> X1, ret |-> X1.conn.state = STATE_REQ]))))

try_one_request(X) ==
    IF Len(X.conn.rbuf) < 4 THEN [x |-> X, ret |-> FALSE]
    ELSE Let(U32Read(SubSeq(X.conn.rbuf, 1, 4)), LAMBDA len :
         IF len > k_max_msg
         THEN [x |-> [X EXCEPT !.conn.state = STATE_END], ret |-> FALSE]
         ELSE IF 4 + len > Len(X.conn.rbuf) THEN [x |-> X, ret |-> FALSE]
         ELSE Let(parse_req(SubSeq(X.conn.rbuf, 5, 4 + len)), LAMBDA p :
              IF ~p.ok
              THEN [x |-> [X EXCEPT !.conn.state = STATE_END], ret |-> FALSE]
              ELSE Let(do_request(X.g, p.cmd, <<>>, X.now), LAMBDA r :
                   Let(IF 4 + Len(r.out) > k_max_msg
                       THEN out_err(<<>>, ERR_2BIG, Msg_Response_is_too_big)
                       ELSE r.out, LAMBDA out :
                   Let(state_res(
                         [X EXCEPT !.g = r.g,
                                   !.ub = @ \/ r.ub,
                                   !.running = @ /\ r.running,
                                   !.gh = Note(@, p.cmd, r.out, X.now),
                                   !.conn.wbuf = U32Bytes(Len(out)) \o out,
                                   !.conn.rbuf = SubSeq(@, 5 + len, Len(@)),
                                   !.conn.state = STATE_RES]), LAMBDA X1 :
                       [x |-> X1, ret |-> X1.conn.state = STATE_REQ])))))

\* while (try_one_request(conn)) {}
RECURSIVE try_requests(_)
try_requests(X) ==
    Let(try_one_request(X), LAMBDA r : IF r.ret THEN try_requests(r.x) ELSE r.x)

\* rbuf is never full when try_fill_buffer is entered in these runs, so its
\* assertions hold; the client never resets the connection
try_fill_buffer(X) ==
    Let(read(X.sock, (4 + k_max_msg) - Len(X.conn.rbuf)), LAMBDA rd :
        IF rd.rv < 0 THEN [x |-> X, ret |-> FALSE]
        ELSE IF rd.rv = 0
        THEN [x |-> [X EXCEPT !.conn.state = STATE_END], ret |-> FALSE]
        ELSE Let(try_requests([X EXCEPT !.sock = rd.sock,
                                        !.conn.rbuf = @ \o rd.data]), LAMBDA X1 :
                 [x |-> X1, ret |-> X1.conn.state = STATE_REQ]))

RECURSIVE state_req(_)
state_req(X) ==
    Let(try_fill_buffer(X), LAMBDA r : IF r.ret THEN state_req(r.x) ELSE r.x)

\* connection_io on the Conn; the move to the tail of the idle list is in
\* serve_conn, which holds the list
connection_io(X) ==
    Let([X EXCEPT !.conn.idle_start = X.now], LAMBDA X1 :
        IF X.conn.state = STATE_REQ THEN state_req(X1) ELSE state_res(X1))

\* The server as a whole is P = [conns, idle, net, g, gh, ub, running]

\* conn_done: the slot of fd2conn is cleared, the fd closed, the node detached
conn_done(P, fd) ==
    [P EXCEPT !.conns = DropKey(@, fd),
              !.net[P.conns[fd].peer].closed = TRUE,
              !.idle = SelectSeq(@, LAMBDA f : f # fd)]

\* connection_io that leaves the connection where it is in the idle list
serve_conn_in_place(P, fd, now) ==
    Let(connection_io([conn |-> P.conns[fd], sock |-> P.net[P.conns[fd].peer],
                       g |-> P.g, gh |-> P.gh, ub |-> P.ub, running |-> P.running,
                       now |-> now]), LAMBDA x :
    Let([P EXCEPT !.conns[fd] = x.conn,
                  !.net[x.conn.peer] = x.sock,
                  !.g = x.g, !.gh = x.gh, !.ub = x.ub, !.running = x.running],
        LAMBDA P1 :
        IF x.conn.state = STATE_END THEN conn_done(P1, fd) ELSE P1))

\* The body of main's loop over the ready descriptors, for one of them
serve_conn(P, fd, now) ==
    Let(connection_io([conn |-> P.conns[fd], sock |-> P.net[P.conns[fd].peer],
                       g |-> P.g, gh |-> P.gh, ub |-> P.ub, running |-> P.running,
                       now |-> now]), LAMBDA x :
    Let([P EXCEPT !.conns[fd] = x.conn,
                  !.net[x.conn.peer] = x.sock,
                  !.idle = Append(SelectSeq(@, LAMBDA f : f # fd), fd),
                  !.g = x.g, !.gh = x.gh, !.ub = x.ub, !.running = x.running],
        LAMBDA P1 :
        IF x.conn.state = STATE_END THEN conn_done(P1, fd) ELSE P1))

\* The same timer, except that it looks at the TTL heap only
next_timer_ttl_only(cs, idle, hp, now) ==
    Let(UINT64_MAX, LAMBDA next0 :
    Let(IF hp # <<>> /\ u64_less(hp[Len(hp)].val, next0) THEN hp[1].val ELSE next0,
        LAMBDA next :
        IF next = UINT64_MAX THEN 10000
        ELSE IF u64_less(U64(now), next) THEN U32Int(u64_div(u64_sub(next, U64(now)), 1000))
        ELSE 0))

\* next_timer: the poll timeout in milliseconds.  The heap is looked at through
\* vector_back, and its root is what is taken
next_timer(cs, idle, hp, now) ==
    Let(IF idle # <<>> THEN U64(cs[Head(idle)].idle_start + k_idle_timeout_ms * 1000)
        ELSE UINT64_MAX, LAMBDA next0 :
    Let(IF hp # <<>> /\ u64_less(hp[Len(hp)].val, next0) THEN hp[1].val ELSE next0,
        LAMBDA next :
        IF next = UINT64_MAX THEN 10000
        ELSE IF u64_less(U64(now), next) THEN U32Int(u64_div(u64_sub(next, U64(now)), 1000))
        ELSE 0))

\* The first loop of process_timers
RECURSIVE idle_loop(_, _)
idle_loop(P, now) ==
    IF P.idle = <<>> THEN P
    ELSE Let(P.conns[Head(P.idle)], LAMBDA conn :
         IF conn.idle_start + k_idle_timeout_ms * 1000 > now THEN P
         ELSE idle_loop(conn_done(
                  [P EXCEPT !.gh.evicted =
                      [valid |-> TRUE, state |-> conn.state,
                       pending |-> P.g.heap # <<>>,
                       early |-> conn.idle_start + k_idle_timeout_ms * 1000 > now]],
                  conn.fd), now))

\* The test of the second loop of process_timers
ttl_due(P, now) == P.g.heap # <<>> /\ u64_less(P.g.heap[1].val, U64(now))

\* One turn of the second loop: the root's entry is popped from the keyspace
\* and deleted; done is the return on a node hm_pop did not give back.  The
\* test of nworks that ends the loop is in ttl_loop
ttl_turn(S, now) ==
    Let(S.p, LAMBDA P :
    Let(P.g.heap[1].ref, LAMBDA ent :
    Let(hm_pop(P.g.db, [KeyNode(P.g.ents[ent].key) EXCEPT !.id = ent],
               "compare_hnode"), LAMBDA r :
        IF r.ret.id # ent
        THEN [p |-> [P EXCEPT !.g.db = r.hmap, !.ub = @ \/ r.ub], done |-> TRUE]
        ELSE Let(entry_del([P.g EXCEPT !.db = r.hmap], ent, now), LAMBDA g :
                 \* (joined with the empty function, the table of entries is
                 \* computed before the next turn)
                 [p |-> [P EXCEPT !.g = [g EXCEPT !.ents = @ @@ <<>>]], done |-> FALSE]))))

\* The turns in which nworks is lo..hi, in this order (halved, to keep the
\* evaluation shallow)
RECURSIVE ttl_turns(_, _, _, _)
ttl_turns(S, now, lo, hi) ==
    IF S.done \/ ~ttl_due(S.p, now) THEN S
    ELSE IF lo = hi THEN ttl_turn(S, now)
    ELSE ttl_turns(ttl_turns(S, now, lo, (lo + hi) \div 2), now, ((lo + hi) \div 2) + 1, hi)

\* The second loop of process_timers from the given nworks on: the turn in
\* which nworks++ >= k_max_works holds is the last, so nworks goes up to
\* k_max_works
ttl_loop(P, now, nworks) ==
    ttl_turns([p |-> P, done |-> FALSE], now, nworks, k_max_works).p

process_timers(P, t) ==
    Let(t + 1000, LAMBDA now : ttl_loop(idle_loop(P, now), now, 0))

\* The lowest descriptor that is not open
lowest_fd(cs) ==
    CHOOSE f \in FirstFd..(FirstFd + Cardinality(DOMAIN cs)) :
        f \notin DOMAIN cs /\ \A h \in FirstFd..(f - 1) : h \in DOMAIN cs

\* accept_new_conn for the client c at the head of the backlog
accept_new_conn(P, c, now) ==
    Let(lowest_fd(P.conns), LAMBDA conn_fd :
        [P EXCEPT !.conns = SetKey(@, conn_fd, conn_init(conn_fd, now, c)),
                  !.idle = Append(@, conn_fd)])

-----------------------------------------------------------------------------
(* The clients *)

RECURSIVE send_args(_, _)
send_args(cmd, i) ==
    IF i > Len(cmd) THEN <<>>
    ELSE U32Bytes(Len(cmd[i])) \o cmd[i] \o send_args(cmd, i + 1)

\* The bytes send_req of the client writes for a command
send_req(cmd) ==
    Let(U32Bytes(Len(cmd)) \o send_args(cmd, 1), LAMBDA body :
        U32Bytes(Len(body)) \o body)

\* The frames no client library sends: "junk" is a GET frame whose body has a
\* byte after the last argument, "toolong" a length prefix of k_max_msg + 1,
\* "argc" a body that announces k_max_args + 1 arguments, and "overrun" a GET
\* frame whose last argument is announced one byte longer than the body
BadOps == {"junk", "toolong", "argc", "overrun"}
IsBad(a) == a.op \in BadOps

BadBody(a) ==
    CASE a.op = "junk" -> U32Bytes(2) \o send_args(<<Str_get, a.key>>, 1) \o <<0>>
      [] a.op = "argc" -> U32Bytes(k_max_args + 1)
      [] a.op = "overrun" ->
           U32Bytes(2) \o send_args(<<Str_get>>, 1) \o U32Bytes(Len(a.key) + 1) \o a.key

\* The frame of a command of a script
FrameOf(a) ==
    IF a.op = "toolong" THEN U32Bytes(k_max_msg + 1)
    ELSE IF IsBad(a) THEN U32Bytes(Len(BadBody(a))) \o BadBody(a)
    ELSE send_req(Encode(a))

RECURSIVE Frames(_, _)
Frames(cmds, i) ==
    IF i > Len(cmds) THEN <<>> ELSE FrameOf(cmds[i]) \o Frames(cmds, i + 1)

\* The response stream of a script on a keyspace that no other client writes:
\* the framed responses of the reference keyspace, up to the first bad frame
RECURSIVE ExpectedStream(_, _, _)
ExpectedStream(R, cmds, i) ==
    IF i > Len(cmds) \/ IsBad(cmds[i]) THEN <<>>
    ELSE Let(RefRequest(R, cmds[i]), LAMBDA e :
             U32Bytes(Len(e.out)) \o e.out \o ExpectedStream(e.ref, cmds, i + 1))

IsPrefix(s, t) == Len(s) <= Len(t) /\ s = SubSeq(t, 1, Len(s))

Client(cmds, status) ==
    [status |-> status, cmds |-> cmds, tosend |-> Frames(cmds, 1), rx |-> <<>>,
     tx |-> <<>>, rcvd |-> <<>>, eof |-> FALSE, closed |-> FALSE]

-----------------------------------------------------------------------------
(* main: one iteration is EnterPoll, the return of poll, ConnectionIO for    *)
(* each ready descriptor in ascending order, ProcessTimers, AcceptNewConn    *)

Server == [conns |-> conns, idle |-> idle_conns, net |-> net, g |-> G_data,
           gh |-> gh, ub |-> FALSE, running |-> loop.running]

\* The server after a step that may have dereferenced a null pointer
Commit(p, lp) ==
    \E o \in (IF p.ub THEN UBOutcomes ELSE {"defined"}) :
        IF o = "killed"
        THEN /\ crashed' = TRUE
             /\ UNCHANGED <<db, ents, heap, conns, idle_conns, net, gh, loop>>
        ELSE /\ crashed' = FALSE
             /\ db' = p.g.db /\ ents' = p.g.ents /\ heap' = p.g.heap
             /\ conns' = p.conns /\ idle_conns' = p.idle /\ net' = p.net
             /\ gh' = p.gh
             /\ loop' = [lp EXCEPT !.running = p.running]

\* poll reports a connection in STATE_REQ when it has bytes to read or the
\* client has closed, one in STATE_RES when its send queue has room
Ready(fd) ==
    IF conns[fd].state = STATE_REQ
    THEN net[conns[fd].peer].rx # <<>> \/ net[conns[fd].peer].eof
    ELSE Len(net[conns[fd].peer].tx) < SndBuf

ReadyFds == {fd \in DOMAIN conns : Ready(fd)}
AnyReady == ReadyFds # {} \/ backlog # <<>>

\* When poll gives up for a timeout in milliseconds: a negative timeout never
\* does, which is recorded as a time beyond every clock value of a run
PollWake(timeout_ms) ==
    IF timeout_ms < 0 \/ timeout_ms > FarMs THEN clock + FarMs * 1000
    ELSE clock + timeout_ms * 1000

\* EnterPoll without the test of g_running
EnterPollAlways ==
    /\ ~crashed /\ loop.phase = "top"
    /\ loop' = [loop EXCEPT !.phase = "poll",
                            !.wake = PollWake(next_timer(conns, idle_conns, heap, clock))]
    /\ UNCHANGED <<lib_vars, hm_vars, data_vars, cmd_vars, conns, idle_conns, clock, net,
                   backlog, gh>>

EnterPoll ==
    /\ ~crashed /\ loop.phase = "top" /\ loop.running
    /\ loop' = [loop EXCEPT !.phase = "poll",
                            !.wake = PollWake(next_timer(conns, idle_conns, heap, clock))]
    /\ UNCHANGED <<lib_vars, hm_vars, data_vars, cmd_vars, conns, idle_conns, clock, net,
                   backlog, gh>>

PollReturn ==
    /\ loop.phase = "poll" /\ AnyReady
    /\ loop' = [loop EXCEPT !.phase = "io", !.ready = ReadyFds,
                            !.lready = backlog # <<>>]
    /\ UNCHANGED <<lib_vars, hm_vars, data_vars, cmd_vars, conns, idle_conns, clock, net,
                   backlog, gh>>

PollTimeout ==
    /\ loop.phase = "poll" /\ ~AnyReady /\ clock >= loop.wake
    /\ loop' = [loop EXCEPT !.phase = "io", !.ready = {}, !.lready = FALSE]
    /\ UNCHANGED <<lib_vars, hm_vars, data_vars, cmd_vars, conns, idle_conns, clock, net,
                   backlog, gh>>

\* With no connection and no TTL nothing depends on the clock: poll times out
\* after its 10 s again and again, and the clock of the run is left where it is
PollIdle ==
    /\ loop.phase = "poll" /\ ~AnyReady /\ loop.wake > MaxClock
    /\ DOMAIN conns = {} /\ heap = <<>>
    /\ loop' = [loop EXCEPT !.phase = "io", !.ready = {}, !.lready = FALSE]
    /\ UNCHANGED <<lib_vars, hm_vars, data_vars, cmd_vars, conns, idle_conns, clock, net,
                   backlog, gh>>

\* Time passes while poll has nothing to report, up to its timeout
Elapse(t) ==
    /\ loop.phase = "poll" /\ ~AnyReady
    /\ clock < t /\ t <= loop.wake /\ t <= MaxClock
    /\ clock' = t
    /\ UNCHANGED <<lib_vars, hm_vars, data_vars, cmd_vars, conns, idle_conns, loop, net,
                   backlog, gh>>

ConnectionIO ==
    /\ ~crashed /\ loop.phase = "io" /\ loop.ready # {}
    /\ \E fd \in {f \in loop.ready : \A h \in loop.ready : f <= h} :
       \E p \in {serve_conn(Server, fd, clock)} :
           Commit(p, [loop EXCEPT !.ready = @ \ {fd}])
    /\ UNCHANGED <<lib_vars, hm_vars, cmd_vars, clock, backlog>>

ProcessTimers ==
    /\ ~crashed /\ loop.phase = "io" /\ loop.ready = {}
    /\ \E p \in {process_timers(Server, clock)} :
           Commit(p, [loop EXCEPT !.phase = "accept"])
    /\ UNCHANGED <<lib_vars, hm_vars, cmd_vars, clock, backlog>>

AcceptNewConn ==
    /\ ~crashed /\ loop.phase = "accept"
    /\ IF loop.lready
       THEN /\ \E p \in {accept_new_conn(Server, Head(backlog), clock)} :
                   /\ conns' = p.conns
                   /\ idle_conns' = p.idle
            /\ net' = [net EXCEPT ![Head(backlog)].status = "open"]
            /\ backlog' = Tail(backlog)
       ELSE UNCHANGED <<conns, idle_conns, net, backlog>>
    /\ loop' = [loop EXCEPT !.phase = "top", !.lready = FALSE]
    /\ UNCHANGED <<lib_vars, hm_vars, data_vars, cmd_vars, clock, gh>>

\* The clients act while the server is blocked in poll
ClientConnect(c) ==
    /\ loop.phase = "poll" /\ net[c].status = "init"
    /\ net' = [net EXCEPT ![c].status = "pending"]
    /\ backlog' = Append(backlog, c)
    /\ UNCHANGED <<lib_vars, hm_vars, data_vars, cmd_vars, conns, idle_conns, clock, loop, gh>>

ClientSend(c, n) ==
    /\ loop.phase = "poll" /\ net[c].status # "init"
    /\ ~net[c].closed /\ ~net[c].eof /\ net[c].tosend # <<>>
    /\ \E k \in {Min(n, Len(net[c].tosend))} :
           net' = [net EXCEPT ![c].rx = @ \o SubSeq(net[c].tosend, 1, k),
                              ![c].tosend = SubSeq(@, k + 1, Len(@))]
    /\ UNCHANGED <<lib_vars, hm_vars, data_vars, cmd_vars, conns, idle_conns, clock, loop,
                   backlog, gh>>

ClientRecv(c, n) ==
    /\ loop.phase = "poll" /\ net[c].tx # <<>>
    /\ \E k \in {Min(n, Len(net[c].tx))} :
           net' = [net EXCEPT ![c].rcvd = @ \o SubSeq(net[c].tx, 1, k),
                              ![c].tx = SubSeq(@, k + 1, Len(@))]
    /\ UNCHANGED <<lib_vars, hm_vars, data_vars, cmd_vars, conns, idle_conns, clock, loop,
                   backlog, gh>>

\* A client that has sent its script and read what there was closes
ClientClose(c) ==
    /\ loop.phase = "poll" /\ net[c].status = "open"
    /\ ~net[c].closed /\ ~net[c].eof /\ net[c].tosend = <<>> /\ net[c].tx = <<>>
    /\ net' = [net EXCEPT ![c].eof = TRUE]
    /\ UNCHANGED <<lib_vars, hm_vars, data_vars, cmd_vars, conns, idle_conns, clock, loop,
                   backlog, gh>>

\* exit_code is the value main has returned, -1 while it has not
LoopTop == [phase |-> "top", ready |-> {}, lready |-> FALSE, wake |-> 0, running |-> TRUE,
            exit_code |-> 0 - 1]

\* g_data after init_g_data
G_init == [db |-> init_hmap, ents |-> <<>>, heap |-> <<>>]

\* The server before the first iteration of its loop, with the clients given,
\* the keyspace G and the history h of how G came about
SrvStart(clients, G, h) ==
    /\ conns = <<>> /\ idle_conns = <<>> /\ clock = 0 /\ loop = LoopTop
    /\ net = clients
    /\ backlog = SelectSeq([c \in DOMAIN clients |-> c],
                           LAMBDA c : clients[c].status = "pending")
    /\ gh = h
    /\ db = G.db /\ ents = G.ents /\ heap = G.heap /\ crashed = FALSE
    /\ CmdIdle /\ HmIdle

\* The same in the runs that leave the worker pool out
SrvInit(clients, G, h) == SrvStart(clients, G, h) /\ LibIdle

ServerStep ==
    \/ EnterPoll
    \/ PollReturn
    \/ PollTimeout
    \/ PollIdle
    \/ ConnectionIO
    \/ ProcessTimers
    \/ AcceptNewConn

-----------------------------------------------------------------------------
(* One connection: a client that has connected sends a script of pipelined   *)
(* frames in pieces of any of ConnChunks sizes and reads the responses in    *)
(* pieces.  The client is prompt: time passes only when it has nothing left  *)
(* to send and nothing to read.                                              *)

ConnKey == <<97>>
ConnVal == <<118>>
ConnGet == [Cmd0 EXCEPT !.op = "get", !.key = ConnKey]
ConnSet == [Cmd0 EXCEPT !.op = "set", !.key = ConnKey, !.val = ConnVal]
ConnJunk == [Cmd0 EXCEPT !.op = "junk", !.key = ConnKey]
ConnScripts ==
    {<<ConnGet, ConnSet, ConnGet>>, <<ConnSet, ConnGet, ConnGet>>,
     <<ConnSet, ConnJunk, ConnGet>>}
ConnChunks == {1, 17, 100}

ConnInit == \E s \in ConnScripts : SrvInit(<<Client(s, "pending")>>, G_init, GhNone)

ConnElapse ==
    /\ net[1].tx = <<>> /\ (net[1].tosend = <<>> \/ net[1].closed)
    /\ Elapse(loop.wake)

ConnNext ==
    \/ ServerStep
    \/ ConnElapse
    \/ \E n \in ConnChunks : ClientSend(1, n)
    \/ \E n \in ConnChunks : ClientRecv(1, n)

SpecConn == ConnInit /\ [][ConnNext]_vars

\* The bytes the server has written on the connection of client c, and those
\* of the response it is still writing
Written(c) == net[c].rcvd \o net[c].tx
Unsent(c) ==
    LET cs == {fd \in DOMAIN conns : conns[fd].peer = c}
    IN  IF cs = {} THEN <<>>
        ELSE LET conn == conns[CHOOSE fd \in cs : TRUE]
             IN  SubSeq(conn.wbuf, conn.wbuf_sent + 1, Len(conn.wbuf))

\* C2: the bytes written on a connection are, at every moment and for every
\* split of the request bytes across reads and of the response bytes across
\* writes, the beginning of the framed responses of its requests in the order
\* the requests were sent, each the result of its own request: nothing is
\* skipped, duplicated or interleaved.  The part of the response still in the
\* write buffer continues that stream.
C2_ResponsesInOrder ==
    \A c \in DOMAIN net :
        IsPrefix(Written(c) \o Unsent(c), ExpectedStream(<<>>, net[c].cmds, 1))

\* The first response has been read by the client, the second is partly
\* written (the connection is in STATE_RES) and a further request is in rbuf
C2_Witness ==
    /\ net[1].rcvd = U32Bytes(1) \o Resp_NIL
    /\ \E fd \in DOMAIN conns :
           /\ conns[fd].state = STATE_RES /\ conns[fd].wbuf_sent > 0
           /\ conns[fd].rbuf # <<>>

ValidScript(cmds) == \A i \in 1..Len(cmds) : ~IsBad(cmds[i])

\* The client writes all the frames of its script in one write and then only
\* reads.  The server, the clock and the client all keep going: none of them
\* stops for ever while it has a step to take.
PipeSend == ClientSend(1, Len(net[1].tosend))
PipeRecv == \E n \in ConnChunks : ClientRecv(1, n)

PipeNext ==
    \/ ServerStep
    \/ ConnElapse
    \/ PipeSend
    \/ PipeRecv

SpecPipe ==
    /\ ConnInit /\ [][PipeNext]_vars
    /\ WF_vars(ServerStep) /\ WF_vars(ConnElapse)
    /\ WF_vars(PipeSend) /\ WF_vars(PipeRecv)

\* C3: once the client has sent all the frames of a script of valid requests,
\* it eventually has read the responses of all of them
C3_AllAnswered ==
    (ValidScript(net[1].cmds) /\ net[1].tosend = <<>>)
        ~> (net[1].rcvd = ExpectedStream(<<>>, net[1].cmds, 1))

-----------------------------------------------------------------------------
(* Timers: a client that sends SET k, EXPIRE k and GET k, one frame at a    *)
(* time, and reads whole responses, and a client that only connects; each   *)
(* connects when it likes and may close.  Another key may have been given a *)
(* longer TTL at time 0.  Time passes whenever poll has nothing to report.  *)

TimerShort == 100      \* the TTL of k, in milliseconds
TimerLong == 5500      \* the TTL of the other key, in milliseconds
TimerKey == <<107>>
TimerOther == <<106>>
TimerInstants == {500}
TimerExpire(key, ms) == [Cmd0 EXCEPT !.op = "expire", !.key = key, !.lim = ms]
TimerGet == [Cmd0 EXCEPT !.op = "get", !.key = TimerKey]
TimerSet(key) == [Cmd0 EXCEPT !.op = "set", !.key = key, !.val = ConnVal]

\* g_data after SET j v and EXPIRE j TimerLong at time 0
TimerPreloaded ==
    Let(do_request(G_init, Encode(TimerSet(TimerOther)), <<>>, 0), LAMBDA r :
        do_request(r.g, Encode(TimerExpire(TimerOther, TimerLong)), <<>>, 0).g)

TimerInit ==
    \E pre \in BOOLEAN :
        SrvInit(<<Client(<<TimerSet(TimerKey), TimerExpire(TimerKey, TimerShort),
                          TimerGet>>, "init"),
                  Client(<<>>, "init")>>,
                IF pre THEN TimerPreloaded ELSE G_init,
                IF pre THEN [GhNone EXCEPT !.deadline =
                                SetKey(<<>>, TimerOther, TimerLong * 1000)]
                ELSE GhNone)

\* The length of the frame at the head of what client c has left to send
NextFrame(c) == 4 + U32Read(SubSeq(net[c].tosend, 1, 4))

TimerNext ==
    \/ ServerStep
    \/ \E t \in TimerInstants \cup {loop.wake} : Elapse(t)
    \/ \E c \in DOMAIN net : ClientConnect(c)
    \/ \E c \in DOMAIN net : ClientSend(c, NextFrame(c))
    \/ \E c \in DOMAIN net : ClientRecv(c, SndBuf)
    \/ \E c \in DOMAIN net : ClientClose(c)

SpecTimers == TimerInit /\ [][TimerNext]_vars

\* C4: a GET dispatched at or after the deadline an EXPIRE granted for its key,
\* with no SET or EXPIRE of the key since, answers NIL
C4_ExpiredReadsNil ==
    gh.late_get.valid => gh.late_get.out = Resp_NIL

Deadline(fd) == conns[fd].idle_start + k_idle_timeout_ms * 1000

-----------------------------------------------------------------------------
(* The sorted set driven directly: zset_add, zset_pop and zset_lookup *)

ZsPreload == 512     \* members already added, one by one, in a large-set run
ZsScores == {1, 2}   \* the scores passed to zset_add

\* The i-th member name (two bytes) and the score it is preloaded with
ZsName(i) == <<i \div 256, i % 256>>
ZsScore(i) == i % 3

\* The members added, looked up and popped
ZsProbes == {1, 600}

\* zset_add of the members lo..hi in increasing order (halved, to keep the
\* evaluation shallow)
RECURSIVE ZsAddRange(_, _, _)
ZsAddRange(zset, lo, hi) ==
    IF lo > hi THEN zset
    ELSE IF lo = hi THEN zset_add(zset, ZsName(lo), ZsScore(lo)).zset
    ELSE Let(ZsAddRange(zset, lo, (lo + hi) \div 2), LAMBDA half :
             IF half.tree # 0 THEN ZsAddRange(half, ((lo + hi) \div 2) + 1, hi)
             ELSE half)

ZsPreloaded(n) == ZsAddRange(zset_init, 1, n)

\* The in-order walk of the tree: the nodes in ascending order
RECURSIVE avl_walk(_, _)
avl_walk(T, node) ==
    IF node = 0 THEN <<>>
    ELSE avl_walk(T, T[node].left) \o <<node>> \o avl_walk(T, T[node].right)

ZsCall(op, name, score, ret, killed) ==
    [op |-> op, name |-> name, score |-> score, had |-> name \in DOMAIN zs_ref,
     old |-> IF name \in DOMAIN zs_ref THEN zs_ref[name] ELSE 0,
     before |-> zset_lookup(zs, name).ret, ret |-> ret,
     rehash |-> zs.hmap.ht2.tab # <<>>, killed |-> killed]

ZsInit ==
    /\ \E n \in {0, ZsPreload} :
        /\ zs = ZsPreloaded(n)
        /\ zs_ref = [name \in {ZsName(i) : i \in 1..n} |->
                        ZsScore(CHOOSE i \in 1..n : ZsName(i) = name)]
    /\ zs_last = ZsNoCall
    /\ DqIdle /\ PoolIdle /\ AvlIdle
    /\ DataIdle /\ CmdIdle /\ SrvIdle /\ HmIdle

ZsAdd(name, score) ==
    /\ ~zs_last.killed
    /\ \E r \in {zset_add(zs, name, score)} :
           /\ zs' = r.zset
           /\ zs_last' = ZsCall("add", name, score, IF r.ret THEN 1 ELSE 0, FALSE)
    /\ zs_ref' = (name :> score) @@ zs_ref
    /\ UNCHANGED <<dq_vars, pool_vars, avl_vars, hm_vars, data_vars, cmd_vars, srv_vars>>

ZsLookup(name) ==
    /\ ~zs_last.killed
    /\ \E r \in {zset_lookup(zs, name)} :
           /\ zs' = r.zset
           /\ zs_last' = ZsCall("lookup", name, 0, r.ret, FALSE)
    /\ UNCHANGED <<zs_ref, dq_vars, pool_vars, avl_vars, hm_vars, data_vars, cmd_vars, srv_vars>>

\* The caller of zset_pop frees the node returned (znode_del).
ZsPop(name) ==
    /\ ~zs_last.killed
    /\ \E r \in {zset_pop(zs, name)} :
       \E o \in IF r.ub THEN UBOutcomes ELSE {"defined"} :
           /\ zs' = IF r.ret # 0 THEN [r.zset EXCEPT !.T = free(@, r.ret)] ELSE r.zset
           /\ zs_last' = ZsCall("pop", name, 0, r.ret, o = "killed")
    /\ zs_ref' = [n \in DOMAIN zs_ref \ {name} |-> zs_ref[n]]
    /\ UNCHANGED <<dq_vars, pool_vars, avl_vars, hm_vars, data_vars, cmd_vars, srv_vars>>

ZsNext ==
    \/ \E i \in ZsProbes, score \in ZsScores : ZsAdd(ZsName(i), score)
    \/ \E i \in ZsProbes : ZsLookup(ZsName(i))
    \/ \E i \in ZsProbes : ZsPop(ZsName(i))

SpecZS == ZsInit /\ [][ZsNext]_vars

\* The members whose lookup is compared with the walk in every state: the
\* probes and one member in every ZsStride
ZsStride == 41
ZsWatched ==
    {ZsName(i) : i \in ZsProbes} \cup {ZsName(i) : i \in {j \in 1..ZsPreload : j % ZsStride = 0}}

\* The positions of the walk that carry the name
ZsHits(walk, name) == {i \in 1..Len(walk) : zs.T[walk[i]].name = name}

ZsIndicesAgree(walk) ==
    /\ Len(walk) = Cardinality(DOMAIN zs_ref)
    /\ hm_size(zs.hmap) = Len(walk)
    /\ \A i \in 1..(Len(walk) - 1) : zless2(zs.T, walk[i], walk[i + 1])
    /\ \A name \in ZsWatched :
           \E node \in {zset_lookup(zs, name).ret} :
               IF name \in DOMAIN zs_ref
               THEN /\ node # 0
                    /\ zs.T[node].score = zs_ref[name]
                    /\ ZsHits(walk, name) = {i \in 1..Len(walk) : walk[i] = node}
                    /\ Cardinality(ZsHits(walk, name)) = 1
               ELSE node = 0 /\ ZsHits(walk, name) = {}

\* C11: after any sequence of zset_add and zset_pop the hash index and the
\* ordered index hold the same tuples: no call kills the process, zset_lookup
\* of a name returns a node with score s iff the in-order walk holds exactly
\* one tuple with that name and its score is s (the score last given to it),
\* zset_add answers true only when the name was absent, and a zset_add with a
\* changed score moves the one existing node instead of adding a second one.
C11_IndicesHoldSameTuples ==
    /\ ~zs_last.killed
    /\ ZsIndicesAgree(avl_walk(zs.T, zs.tree))
    /\ zs_last.op = "add" => zs_last.ret = (IF zs_last.had THEN 0 ELSE 1)
    /\ (zs_last.op = "add" /\ zs_last.had) =>
           zset_lookup(zs, zs_last.name).ret = zs_last.before
    /\ zs_last.op = "pop" => zs_last.ret = zs_last.before

-----------------------------------------------------------------------------
(* EXPIRE and PTTL on string keys, with the monotonic clock advancing        *)
(* between commands (no timer pass runs in between)                          *)

TtlKeys == {<<107>>, <<108>>}
\* The ms arguments sent: the decimal text and the int64_t it denotes
TtlChoices ==
    {[text |-> <<49, 48, 48>>, ms |-> I64(100)],
     [text |-> <<48>>, ms |-> I64(0)],
     [text |-> <<45, 49>>, ms |-> I64(0 - 1)],
     \* 9223372036854776
     [text |-> <<57, 50, 50, 51, 51, 55, 50, 48, 51, 54, 56, 53, 52, 55, 55, 54>>,
      ms |-> <<21496, 42467, 50331, 32>>]}
\* The instants at which commands are sent, in microseconds
TtlInstants == {60000, 101000}

TtlArgs(a) ==
    CASE a.op = "set" -> <<Str_set, a.key, <<118>>>>
      [] a.op = "del" -> <<Str_del, a.key>>
      [] a.op = "expire" -> <<Str_expire, a.key, a.ttl.text>>
      [] a.op = "pttl" -> <<Str_pttl, a.key>>

TtlNone == [text |-> <<>>, ms |-> I64(0 - 1)]
TtlCmds ==
    {[op |-> o, key |-> k, ttl |-> TtlNone] : o \in {"set", "del", "pttl"}, k \in TtlKeys}
    \cup {[op |-> "expire", key |-> k, ttl |-> c] : k \in TtlKeys, c \in TtlChoices}

\* The reference: for every key present, whether it has a TTL, the ms of the
\* latest EXPIRE and the smallest PTTL answered since
TtlFresh == [timed |-> FALSE, ms |-> I64(0 - 1), seen |-> I64(0 - 1)]
TtlRef(R, a, out) ==
    CASE a.op = "set" -> IF a.key \in DOMAIN R THEN R ELSE (a.key :> TtlFresh) @@ R
      [] a.op = "del" -> [k \in DOMAIN R \ {a.key} |-> R[k]]
      [] a.op = "expire" ->
           IF a.key \notin DOMAIN R THEN R
           ELSE IF i64_negative(a.ttl.ms) THEN [R EXCEPT ![a.key] = TtlFresh]
           ELSE [R EXCEPT ![a.key] = [timed |-> TRUE, ms |-> a.ttl.ms, seen |-> a.ttl.ms]]
      [] a.op = "pttl" ->
           IF a.key \in DOMAIN R /\ R[a.key].timed /\ Len(out) = 9
           THEN [R EXCEPT ![a.key].seen = <<out[2] + 256 * out[3], out[4] + 256 * out[5],
                                            out[6] + 256 * out[7], out[8] + 256 * out[9]>>]
           ELSE R

TtlNoCmd == [a |-> [op |-> "none", key |-> <<>>, ttl |-> TtlNone], out |-> <<>>,
             had |-> FALSE, before |-> TtlFresh, keys |-> {}]

TtlInit ==
    /\ DataIdle
    /\ ref = <<>>
    /\ last = TtlNoCmd
    /\ cmd_limit = 0
    /\ HmIdle /\ LibIdle
    /\ conns = <<>> /\ idle_conns = <<>> /\ clock = 1000 /\ loop = LoopOff
    /\ net = <<>> /\ backlog = <<>> /\ gh = GhNone

\* The keys of the keyspace
TtlKeyspace(G) == {G.ents[e].key : e \in DOMAIN G.ents}

\* One command through do_request at the present time
TtlDispatch(a) ==
    /\ \E r \in {do_request(G_data, TtlArgs(a), <<>>, clock)} :
           /\ db' = r.g.db /\ ents' = r.g.ents /\ heap' = r.g.heap
           /\ last' = [a |-> a, out |-> r.out, had |-> a.key \in DOMAIN ref,
                       before |-> IF a.key \in DOMAIN ref THEN ref[a.key] ELSE TtlFresh,
                       keys |-> TtlKeyspace(G_data)]
           /\ ref' = TtlRef(ref, a, r.out)
    /\ UNCHANGED <<crashed, cmd_limit, lib_vars, hm_vars, srv_vars>>

TtlElapse(t) ==
    /\ clock < t
    /\ clock' = t
    /\ UNCHANGED <<lib_vars, hm_vars, data_vars, cmd_vars, conns, idle_conns, loop, net,
                   backlog, gh>>

TtlNext ==
    \/ \E a \in TtlCmds : TtlDispatch(a)
    \/ \E t \in TtlInstants : TtlElapse(t)

SpecTTL == TtlInit /\ [][TtlNext]_vars

\* The int64_t of an INT response
TtlAnswer(out) ==
    <<out[2] + 256 * out[3], out[4] + 256 * out[5], out[6] + 256 * out[7],
      out[8] + 256 * out[9]>>

\* C12: PTTL k answers INT -2 when k is absent, INT -1 when k has no TTL
\* (never set, or cleared by an EXPIRE with ms < 0), and otherwise an INT in
\* [0, ms] for the ms of the latest EXPIRE, never above an earlier answer for
\* the same EXPIRE; EXPIRE answers INT 1 iff k exists and INT 0 otherwise, and
\* never creates k.
C12_PttlAndExpire ==
    /\ last.a.op = "pttl" =>
           /\ Len(last.out) = 9 /\ last.out[1] = SER_INT
           /\ IF ~last.had THEN TtlAnswer(last.out) = I64(0 - 2)
              ELSE IF ~last.before.timed THEN TtlAnswer(last.out) = I64(0 - 1)
              ELSE /\ ~i64_negative(TtlAnswer(last.out))
                   /\ ~u64_less(last.before.ms, TtlAnswer(last.out))
                   /\ ~u64_less(last.before.seen, TtlAnswer(last.out))
    /\ last.a.op = "expire" =>
           /\ last.out = Resp_INT(IF last.had THEN 1 ELSE 0)
           /\ TtlKeyspace(G_data) = last.keys
    /\ TtlKeyspace(G_data) = DOMAIN ref

-----------------------------------------------------------------------------
(* Bad frames: a client whose script holds one frame the server must reject, *)
(* before and after valid SETs, and a client that sends a valid script on    *)
(* another key                                                               *)

BadKeyA == <<97>>
BadKeyB == <<98>>
BadKeyAfter == <<99>>
BadSet(key) == [Cmd0 EXCEPT !.op = "set", !.key = key, !.val = ConnVal]
BadFrame(kind) == [Cmd0 EXCEPT !.op = kind, !.key = BadKeyA]
BadScripts ==
    {<<BadSet(BadKeyA), BadFrame(kind), BadSet(BadKeyAfter)>> : kind \in BadOps}
    \cup {<<BadSet(BadKeyA), BadSet(BadKeyA), BadFrame(kind), BadSet(BadKeyAfter)>> :
             kind \in {"junk", "toolong"}}
BadOther == <<BadSet(BadKeyB), [Cmd0 EXCEPT !.op = "get", !.key = BadKeyB]>>
BadChunks == {6, 100}

BadInit ==
    \E s \in BadScripts :
        SrvInit(<<Client(s, "pending"), Client(BadOther, "pending")>>, G_init, GhNone)

\* Time passes once no client has anything to send or to read
BadElapse ==
    /\ \A c \in DOMAIN net : net[c].tx = <<>> /\ (net[c].tosend = <<>> \/ net[c].closed)
    /\ Elapse(loop.wake)

BadNext ==
    \/ ServerStep
    \/ BadElapse
    \/ \E n \in BadChunks : ClientSend(1, n)
    \/ ClientSend(2, Len(net[2].tosend))
    \/ \E c \in DOMAIN net : ClientRecv(c, Len(net[c].tx))

SpecBad == BadInit /\ [][BadNext]_vars

\* A bad frame is at the head of the read buffer, with all the bytes that
\* try_one_request needs to see it
BadAtHead(rbuf) == \E kind \in BadOps : IsPrefix(FrameOf(BadFrame(kind)), rbuf)

\* try_one_request on the connection fd as it stands
BadTry(fd) ==
    try_one_request([conn |-> conns[fd], sock |-> net[conns[fd].peer], g |-> G_data,
                     gh |-> gh, ub |-> FALSE, running |-> loop.running, now |-> clock])

\* C13: a frame whose length prefix exceeds 4096, or whose body announces more
\* than 1024 arguments, an argument past the end of the body, or has bytes
\* after the last argument, closes its connection and is not dispatched.  The
\* bytes written on the connection are the responses of the requests before
\* the frame and nothing else, the keyspace holds what the requests before it
\* and the other connection wrote and never what follows the frame, no
\* connection is left in STATE_END, try_one_request on a read buffer that
\* starts with such a frame ends the connection and touches neither keyspace,
\* write buffer nor socket, and the other connection is served and stays open.
C13_BadFrameCloses ==
    /\ \A c \in DOMAIN net :
           /\ IsPrefix(Written(c) \o Unsent(c), ExpectedStream(<<>>, net[c].cmds, 1))
           /\ (ValidScript(net[c].cmds) /\ clock < k_idle_timeout_ms * 1000) =>
                  ~net[c].closed
    /\ TtlKeyspace(G_data) \subseteq {BadKeyA, BadKeyB}
    /\ \A fd \in DOMAIN conns :
           /\ conns[fd].state # STATE_END
           /\ BadAtHead(conns[fd].rbuf) =>
                  \E r \in {BadTry(fd)} :
                      /\ ~r.ret /\ r.x.conn.state = STATE_END
                      /\ r.x.g = G_data /\ r.x.conn.wbuf = conns[fd].wbuf
                      /\ r.x.sock = net[conns[fd].peer] /\ ~r.x.ub

\* The server closed the connection of the first client after the response of
\* its first SET and before any idle timeout, while the second client is open
\* and has read both its responses; the keyspace holds the two keys
C13_Witness ==
    /\ net[1].closed /\ clock < k_idle_timeout_ms * 1000
    /\ net[1].tosend = <<>>
    /\ Written(1) = U32Bytes(1) \o Resp_NIL
    /\ ~net[2].closed /\ net[2].rcvd = ExpectedStream(<<>>, BadOther, 1)
    /\ TtlKeyspace(G_data) = {BadKeyA, BadKeyB}
    /\ \A fd \in DOMAIN conns : conns[fd].peer = 2

\* A connection sits between two loop iterations with a bad frame at the head
\* of its read buffer
C13_BadBuffered == \E fd \in DOMAIN conns : BadAtHead(conns[fd].rbuf)

-----------------------------------------------------------------------------
(* Command-level errors: a client that sends one request the dispatcher must *)
(* answer with ERR, then a SET and a GET, on a keyspace with a string key    *)
(* that has a TTL and a sorted set                                           *)

ErrKeyS == <<115>>
ErrKeyZ == <<122>>
ErrMember == <<109>>
ErrVal == <<118>>
ErrNewVal == <<119>>
ErrJunk == <<120>>
ErrTtlMs == 100000
Str_foo == <<102, 111, 111>>

ErrSetup ==
    <<(<<Str_set, ErrKeyS, ErrVal>>), (<<Str_zadd, ErrKeyZ, Dec(1), ErrMember>>),
      (<<Str_expire, ErrKeyS, Dec(ErrTtlMs)>>)>>

RECURSIVE ErrApply(_, _, _)
ErrApply(G, cmds, i) ==
    IF i > Len(cmds) THEN G ELSE ErrApply(do_request(G, cmds[i], <<>>, 0).g, cmds, i + 1)

\* Requests with no command, with a command that does not exist, and with a
\* command that exists and one argument too few or too many
ErrUnknown == {<<>>, <<Str_foo>>, <<Str_foo, ErrKeyS>>}
ErrArgc ==
    {<<Str_get>>, <<Str_get, ErrKeyS, ErrKeyS>>, <<Str_set, ErrKeyS>>,
     <<Str_set, ErrKeyS, ErrNewVal, ErrNewVal>>, <<Str_del>>, <<Str_del, ErrKeyS, ErrKeyZ>>,
     <<Str_keys, ErrKeyS>>, <<Str_expire, ErrKeyS>>, <<Str_pttl>>,
     <<Str_pttl, ErrKeyS, ErrKeyS>>, <<Str_zadd, ErrKeyZ, Dec(2)>>, <<Str_zrem, ErrKeyZ>>,
     <<Str_zrem, ErrKeyZ, ErrMember, ErrMember>>, <<Str_zscore, ErrKeyZ>>,
     <<Str_zquery, ErrKeyZ, Dec(1), ErrMember, Dec(0)>>, <<Str_shutdown, ErrKeyS>>}
\* EXISTS takes two arguments or more and COMMAND one or two
ErrArgcOpen == {<<Str_exists>>, <<Str_command, Str_list, ErrKeyS>>}
\* A command for strings on the sorted set and one for sorted sets on the string
ErrType ==
    {<<Str_get, ErrKeyZ>>, <<Str_set, ErrKeyZ, ErrNewVal>>,
     <<Str_zadd, ErrKeyS, Dec(2), ErrMember>>, <<Str_zrem, ErrKeyS, ErrMember>>,
     <<Str_zscore, ErrKeyS, ErrMember>>,
     <<Str_zquery, ErrKeyS, Dec(1), ErrMember, Dec(0), Dec(1)>>}
\* A score, a time to live, an offset and a limit that are not numbers
ErrParse ==
    {<<Str_zadd, ErrKeyZ, ErrJunk, ErrMember>>, <<Str_expire, ErrKeyS, ErrJunk>>,
     <<Str_zquery, ErrKeyZ, ErrJunk, ErrMember, Dec(0), Dec(1)>>,
     <<Str_zquery, ErrKeyZ, Dec(1), ErrMember, ErrJunk, Dec(1)>>,
     <<Str_zquery, ErrKeyZ, Dec(1), ErrMember, Dec(0), ErrJunk>>}
ErrChecked == ErrUnknown \cup ErrArgc \cup ErrType \cup ErrParse
ErrRequests == ErrChecked \cup ErrArgcOpen

ErrRaw(argv) == [Cmd0 EXCEPT !.op = "raw", !.keys = argv]
ErrScript(e) ==
    <<ErrRaw(e), ErrRaw(<<Str_set, ErrKeyS, ErrNewVal>>), ErrRaw(<<Str_get, ErrKeyS>>)>>

\* The keyspace at the start has the string and the sorted set, and the TTL of
\* the string or none
ErrInit ==
    \E e \in ErrRequests, n \in {2, 3} :
        SrvInit(<<Client(ErrScript(e), "pending")>>,
                ErrApply(G_init, SubSeq(ErrSetup, 1, n), 1), GhNone)

\* The payloads of the complete frames at the head of a stream
RECURSIVE Payloads(_)
Payloads(stream) ==
    IF Len(stream) < 4 THEN <<>>
    ELSE Let(U32Read(SubSeq(stream, 1, 4)), LAMBDA n :
             IF Len(stream) < 4 + n THEN <<>>
             ELSE <<SubSeq(stream, 5, 4 + n)>>
                      \o Payloads(SubSeq(stream, 5 + n, Len(stream))))

\* The requests client c has sent
ErrSent(c) == Len(net[c].cmds) - Len(Payloads(net[c].tosend))

\* The client sends a request once it has read the responses of those before
ErrSend(c) ==
    /\ Len(Payloads(net[c].rcvd)) = ErrSent(c)
    /\ ClientSend(c, NextFrame(c))

ErrElapse ==
    /\ net[1].tx = <<>> /\ (net[1].tosend = <<>> \/ net[1].closed)
    /\ Elapse(loop.wake)

ErrNext ==
    \/ ServerStep
    \/ ErrElapse
    \/ ErrSend(1)
    \/ ClientRecv(1, SndBuf)

SpecErr == ErrInit /\ [][ErrNext]_vars

\* The nodes of the two tables of a hash map
ErrTabNodes(htab) ==
    UNION {{htab.tab[pos][i] : i \in 1..Len(htab.tab[pos])} : pos \in DOMAIN htab.tab}
ErrDbNodes(hm) == ErrTabNodes(hm.ht1) \cup ErrTabNodes(hm.ht2)

\* do_request answers ERR to the request argv and leaves keys, entries (type,
\* value, sorted set, place in the heap), TTL heap and g_running as they are
ErrRejected(argv) ==
    \E r \in {do_request(G_data, argv, <<>>, clock)} :
        /\ r.out # <<>> /\ r.out[1] = SER_ERR
        /\ ErrDbNodes(r.g.db) = ErrDbNodes(G_data.db)
        /\ r.g.ents = G_data.ents /\ r.g.heap = G_data.heap
        /\ r.running /\ ~r.ub

\* What the connection has carried: one response at most for each request
\* sent, ERR for the first, NIL for the SET and the new value for the GET; the
\* connection is open until the idle timeout
ErrServed(c) ==
    /\ \E P \in {Payloads(Written(c))} :
           /\ Len(P) <= ErrSent(c)
           /\ Len(P) >= 1 => P[1][1] = SER_ERR
           /\ Len(P) >= 2 => P[2] = Resp_NIL
           /\ Len(P) >= 3 => P[3] = Resp_STR(ErrNewVal)
    /\ clock < k_idle_timeout_ms * 1000 => ~net[c].closed
    /\ \A fd \in DOMAIN conns : conns[fd].state # STATE_END

\* C14: a request with an unknown command, a wrong number of arguments, a
\* command for strings on a sorted-set key or for sorted sets on a string key,
\* or a score, time to live, offset or limit that is not a number is answered
\* with ERR; keys, values, types, sorted sets and the TTL heap are as before,
\* and the connection stays open and serves the requests that follow.
C14_CommandErrors ==
    /\ \A argv \in ErrRequests : ErrRejected(argv)
    /\ \A c \in DOMAIN net : ErrServed(c)

\* The same for the requests of which the dispatcher checks the argument count
C14_CheckedErrors ==
    /\ \A argv \in ErrChecked : ErrRejected(argv)
    /\ \A c \in DOMAIN net :
           net[c].cmds[1].keys \in ErrChecked => ErrServed(c)

\* The client has read ERR, NIL and the value of the SET that followed
C14_Served ==
    /\ net[1].cmds[1].keys \in ErrType /\ heap # <<>>
    /\ Len(Payloads(net[1].rcvd)) = 3 /\ ~net[1].closed

-----------------------------------------------------------------------------
(* Responses at the message limit: KEYS on a keyspace of two keys whose      *)
(* lengths put the serialized array at 4092, 4093, 4096 and 4097 bytes       *)

BigFirstLen == 2000
BigSecondLen == 2077
BigDeltas == {0, 1, 4, 5}
BigKey(tag, n) == [i \in 1..n |-> IF i = 1 THEN tag ELSE 97 + (i % 7)]
BigSetup(d) ==
    <<(<<Str_set, BigKey(65, BigFirstLen), <<>> >>),
      (<<Str_set, BigKey(66, BigSecondLen + d), <<>> >>)>>
BigScript == <<ErrRaw(<<Str_keys>>), ErrRaw(<<Str_get, ErrKeyS>>)>>

BigInit ==
    \E d \in BigDeltas :
        SrvInit(<<Client(BigScript, "pending")>>, ErrApply(G_init, BigSetup(d), 1), GhNone)

BigNext ==
    \/ ServerStep
    \/ ErrElapse
    \/ ErrSend(1)
    \/ ClientRecv(1, SndBuf)

SpecBig == BigInit /\ [][BigNext]_vars

\* The serialized response of do_request to KEYS on the keyspace as it is
BigPayload == do_request(G_data, <<Str_keys>>, <<>>, clock).out

\* ERR with code 2 and the message of try_one_request
BigErr ==
    <<SER_ERR>> \o U32Bytes(2) \o U32Bytes(Len(Msg_Response_is_too_big))
        \o Msg_Response_is_too_big

\* What the connection carries when responses of more than limit bytes are
\* replaced: the frame of the response to KEYS, then NIL for the GET
BigStream(limit) ==
    Let(IF Len(BigPayload) > limit THEN BigErr ELSE BigPayload, LAMBDA out :
        U32Bytes(Len(out)) \o out \o U32Bytes(1) \o Resp_NIL)

BigFits == \A fd \in DOMAIN conns : Len(conns[fd].wbuf) <= 4 + k_max_msg

\* C15: the response sent is ERR with code 2 exactly when the serialized
\* response is longer than 4096 bytes, a response of 4096 bytes or fewer is
\* sent as it is, and the frame written fits the write buffer of 4100 bytes.
C15_TooBigAbove4096 ==
    /\ \A c \in DOMAIN net : IsPrefix(Written(c) \o Unsent(c), BigStream(k_max_msg))
    /\ BigFits

\* The same with the limit on the frame: length prefix and response together
\* are 4096 bytes at most
C15_TooBigAbove4092 ==
    /\ \A c \in DOMAIN net : IsPrefix(Written(c) \o Unsent(c), BigStream(k_max_msg - 4))
    /\ BigFits

\* The client has read a response of 4092 bytes as it was serialized
C15_SentWhole ==
    /\ Len(BigPayload) = k_max_msg - 4
    /\ Len(Payloads(net[1].rcvd)) = 2 /\ Payloads(net[1].rcvd)[1] = BigPayload

\* The client has read ERR in place of a response of 4096 bytes
C15_Replaced ==
    /\ Len(BigPayload) = k_max_msg
    /\ Len(Payloads(net[1].rcvd)) = 2 /\ Payloads(net[1].rcvd)[1] = BigErr

-----------------------------------------------------------------------------
(* The deque as the task queue uses it: deque_push_back of a new pointer,    *)
(* deque_front and deque_pop_front                                          *)

DqMaxPush == 19

DqInit ==
    /\ DqIdle /\ ZsIdle /\ PoolIdle /\ AvlIdle
    /\ DataIdle /\ CmdIdle /\ HmIdle /\ SrvIdle

\* deque_push_back of the pointer n + 1, where n pointers were pushed before
DqPushBack ==
    /\ dq_last.n < DqMaxPush
    /\ \E how \in (IF deque_full(dq) THEN ReallocOutcomes ELSE {"inplace"}) :
           /\ dq' = deque_push_back(dq, dq_last.n + 1, how)
           /\ dq_last' = [op |-> "push_back", data |-> dq_last.n + 1, ret |-> 1,
                          expect |-> 1, n |-> dq_last.n + 1,
                          wrapped |-> dq_last.wrapped \cup
                                      (IF deque_full(dq) /\ dq.front > dq.back
                                       THEN {how} ELSE {})]
    /\ dq_ref' = Append(dq_ref, dq_last.n + 1)
    /\ UNCHANGED <<zs_vars, pool_vars, avl_vars, hm_vars, data_vars, cmd_vars, srv_vars>>

\* deque_front and deque_pop_front, as the worker calls them
DqPopFront ==
    /\ dq_ref # <<>>
    /\ \E r \in {deque_pop_front(dq)} :
           /\ dq' = r.deque
           /\ dq_last' = [dq_last EXCEPT !.op = "pop_front", !.data = deque_front(dq),
                                         !.ret = r.ret, !.expect = Head(dq_ref)]
    /\ dq_ref' = Tail(dq_ref)
    /\ UNCHANGED <<zs_vars, pool_vars, avl_vars, hm_vars, data_vars, cmd_vars, srv_vars>>

DqNext == DqPushBack \/ DqPopFront

SpecDQ == DqInit /\ [][DqNext]_vars

\* The pointers in the deque, from front to back
DqContents(deque) ==
    [i \in 1..deque.size |-> deque.data[(deque.front + (i - 1)) % deque.capacity]]

\* C17: the pointers come out in the order they went in: deque_front and
\* deque_pop_front return the oldest pointer that was pushed and not yet
\* popped, and the deque holds the pointers pushed and not yet popped, each
\* once and in the order of the pushes, also after the deque has grown beyond
\* 16 cells while its contents wrapped around the end of the array.
C17_FifoOrder ==
    /\ dq_last.op = "pop_front" =>
           dq_last.ret = dq_last.expect /\ dq_last.data = dq_last.expect
    /\ DqContents(dq) = dq_ref
    /\ dq.size = Len(dq_ref)

\* The same for the runs in which the deque never grew while wrapped, or grew
\* with a block that had moved and still held the old pointers when read
C17_FifoUnlessWrappedGrowth ==
    dq_last.wrapped \subseteq {"moved_intact"} => C17_FifoOrder

\* A pointer was popped after the deque had grown while wrapped
C17_PoppedAfterGrowth ==
    dq_last.op = "pop_front" /\ dq_last.wrapped # {} /\ dq.capacity = 32

-----------------------------------------------------------------------------
(* The thread pool: src/thread_pool.c.  Every access to the queue and to     *)
(* stop is made with the mutex held, so a critical section is one step.  A   *)
(* task is a positive number; the queue holds the address of the Worker that *)
(* thread_pool_queue has on its stack, which is one of TpSlots.              *)

TpWorkers == 2
TpMaxTasks == 3

\* What a worker reads through a pointer to a Worker of a call that has
\* returned: the bytes last written there, or those of a later call
StackOutcomes == {"intact", "reused"}

\* thread_pool_init with n workers: the threads are created and stop is false
thread_pool_init(n) ==
    /\ PoolFresh
    /\ threads = [i \in 1..n |-> [pc |-> "lock", task |-> 0]]

TpInit ==
    /\ thread_pool_init(TpWorkers)
    /\ ZsIdle /\ DqIdle /\ AvlIdle /\ DataIdle /\ CmdIdle /\ HmIdle /\ SrvIdle

TpRest == <<zs_vars, dq_vars, avl_vars, hm_vars, data_vars, cmd_vars, srv_vars>>

\* worker, from pthread_mutex_lock to pthread_mutex_unlock or to the wait:
\* with nothing queued and no stop the thread waits on the condition; with
\* stop it exits; otherwise it copies the Worker at the front and pops it
worker_section(i) ==
    IF deque_empty(pool.queue) /\ ~pool.stop
    THEN /\ threads' = [threads EXCEPT ![i].pc = "wait"]
         /\ UNCHANGED pool
    ELSE IF pool.stop
    THEN /\ threads' = [threads EXCEPT ![i].pc = "exited"]
         /\ UNCHANGED pool
    ELSE \E a \in {deque_front(pool.queue)} :
         \E o \in (IF tp_main.pc = "signal" /\ tp_main.slot = a THEN {"intact"}
                   ELSE StackOutcomes) :
             /\ threads' = [threads EXCEPT
                               ![i] = [pc |-> "run",
                                       task |-> IF o = "intact" THEN tp_stack[a]
                                                ELSE Indeterminate]]
             /\ pool' = [pool EXCEPT !.queue = deque_pop_front(@).deque]

\* A worker takes the mutex at the top of its loop, or on its way out of
\* pthread_cond_wait
WorkerLock(i) ==
    /\ ~tp_hist.killed /\ threads[i].pc = "lock"
    /\ worker_section(i)
    /\ UNCHANGED <<tp_main, tp_stack, tp_hist, TpRest>>

\* task.function(task.arg): a Worker that is not the one submitted makes the
\* thread call through a wild pointer
WorkerRun(i) ==
    /\ ~tp_hist.killed /\ threads[i].pc = "run"
    /\ IF threads[i].task = Indeterminate
       THEN /\ tp_hist' = [tp_hist EXCEPT !.killed = TRUE]
            /\ UNCHANGED threads
       ELSE /\ tp_hist' = [tp_hist EXCEPT !.executed = Append(@, threads[i].task)]
            /\ threads' = [threads EXCEPT ![i] = [pc |-> "lock", task |-> 0]]
    /\ UNCHANGED <<pool, tp_main, tp_stack, TpRest>>

\* pthread_cond_wait may return without a signal
WorkerSpurious(i) ==
    /\ ~tp_hist.killed /\ threads[i].pc = "wait"
    /\ threads' = [threads EXCEPT ![i].pc = "lock"]
    /\ UNCHANGED <<pool, tp_main, tp_stack, tp_hist, TpRest>>

\* thread_pool_queue up to pthread_mutex_unlock: the Worker is on the stack at
\* address a and its address goes into the queue
thread_pool_queue(a) ==
    /\ ~tp_hist.killed /\ tp_main.pc = "idle"
    /\ Len(tp_hist.submitted) < TpMaxTasks
    /\ \E task \in {Len(tp_hist.submitted) + 1} :
           /\ tp_stack' = [tp_stack EXCEPT ![a] = task]
           /\ tp_hist' = [tp_hist EXCEPT !.submitted = Append(@, task)]
    /\ pool' = [pool EXCEPT !.queue = deque_push_back(@, a, "inplace")]
    /\ tp_main' = [tp_main EXCEPT !.pc = "signal", !.slot = a]
    /\ UNCHANGED <<threads, TpRest>>

\* pthread_cond_signal and the return of thread_pool_queue: one of the
\* waiting threads, if there is one, is woken
TpSignal ==
    /\ ~tp_hist.killed /\ tp_main.pc = "signal"
    /\ \E W \in {{i \in DOMAIN threads : threads[i].pc = "wait"}} :
           IF W = {} THEN UNCHANGED threads
           ELSE \E i \in W : threads' = [threads EXCEPT ![i].pc = "lock"]
    /\ tp_main' = [tp_main EXCEPT !.pc = "idle", !.slot = 0]
    /\ UNCHANGED <<pool, tp_stack, tp_hist, TpRest>>

\* thread_pool_destroy up to pthread_mutex_unlock: stop, and every waiting
\* thread is woken
thread_pool_destroy ==
    /\ ~tp_hist.killed /\ tp_main.pc = "idle"
    /\ pool' = [pool EXCEPT !.stop = TRUE]
    /\ threads' = [i \in DOMAIN threads |->
                      IF threads[i].pc = "wait" THEN [threads[i] EXCEPT !.pc = "lock"]
                      ELSE threads[i]]
    /\ tp_main' = [tp_main EXCEPT !.pc = "join", !.joined = 0]
    /\ UNCHANGED <<tp_stack, tp_hist, TpRest>>

\* pthread_join of the next thread, which has exited; after the last one the
\* queue is destroyed and thread_pool_destroy returns
TpJoin ==
    /\ ~tp_hist.killed /\ tp_main.pc = "join"
    /\ tp_main.joined < Len(threads)
    /\ threads[tp_main.joined + 1].pc = "exited"
    /\ tp_main' = [tp_main EXCEPT !.joined = @ + 1,
                                  !.pc = IF tp_main.joined + 1 = Len(threads)
                                         THEN "returned" ELSE "join"]
    /\ UNCHANGED <<pool, threads, tp_stack, tp_hist, TpRest>>

TpNext ==
    \/ \E i \in DOMAIN threads : WorkerLock(i)
    \/ \E i \in DOMAIN threads : WorkerRun(i)
    \/ \E i \in DOMAIN threads : WorkerSpurious(i)
    \/ \E a \in TpSlots : thread_pool_queue(a)
    \/ TpSignal
    \/ thread_pool_destroy
    \/ TpJoin

SpecTP == TpInit /\ [][TpNext]_vars

\* C18: when thread_pool_destroy returns, every task that was submitted has
\* been run by a worker and the queue is empty, whatever the order of the
\* steps of the workers, of the submits and of the shutdown.
C18_DestroyDrains ==
    tp_main.pc = "returned" =>
        /\ \A k \in 1..Len(tp_hist.submitted) :
               \E j \in 1..Len(tp_hist.executed) : tp_hist.executed[j] = k
        /\ deque_empty(pool.queue)

\* Every Worker a thread copied is the task that was queued in that place, and
\* no worker thread called through a wild pointer
C18_WorkersReadTheirTask ==
    /\ ~tp_hist.killed
    /\ \A j \in 1..Len(tp_hist.executed) : tp_hist.executed[j] = j

\* thread_pool_destroy has returned with all the worker threads joined
C18_Returned == tp_main.pc = "returned" /\ tp_hist.submitted # <<>>

-----------------------------------------------------------------------------
(* SHUTDOWN: a client that sends SHUTDOWN and a GET behind it, and a client  *)
(* that sends a SET, served by the loop of main with its pool of four        *)
(* workers; after the loop main runs free_g_data and returns                 *)

DownWorkers == 4
DownFirst == <<ErrRaw(<<Str_shutdown>>), ErrRaw(<<Str_get, ErrKeyS>>)>>
DownSecond == <<ErrRaw(<<Str_set, ErrKeyS, ErrVal>>)>>
DownResponse == Resp_STR(Msg_shutting_down)

DownInit ==
    /\ SrvStart(<<Client(DownFirst, "pending"), Client(DownSecond, "pending")>>,
                G_init, GhNone)
    /\ thread_pool_init(DownWorkers)
    /\ ZsIdle /\ DqIdle /\ AvlIdle

\* A client sends the next frame of its script, or all that is left of it
DownSend(c) ==
    /\ net[c].tosend # <<>>
    /\ \E n \in {NextFrame(c), Len(net[c].tosend)} : ClientSend(c, n)

\* The clients stay silent until poll's timeout
DownElapse == Elapse(loop.wake)

\* free_g_data once the loop has ended: thread_pool_destroy
DownDestroy ==
    /\ loop.phase = "top" /\ ~loop.running
    /\ thread_pool_destroy

\* return 0, after thread_pool_destroy has returned
MainReturn ==
    /\ loop.phase = "top" /\ ~loop.running /\ tp_main.pc = "returned"
    /\ loop' = [loop EXCEPT !.phase = "exit", !.exit_code = 0]
    /\ UNCHANGED <<lib_vars, hm_vars, data_vars, cmd_vars, conns, idle_conns, clock, net,
                   backlog, gh>>

DownMain == ServerStep \/ DownDestroy \/ TpJoin \/ MainReturn

DownNext ==
    \/ ServerStep
    \/ DownDestroy
    \/ TpJoin
    \/ MainReturn
    \/ DownElapse
    \/ \E i \in DOMAIN threads : WorkerLock(i)
    \/ \E c \in DOMAIN net : DownSend(c)
    \/ \E c \in DOMAIN net : ClientRecv(c, SndBuf)

\* The main thread and the worker threads are scheduled as long as they can
\* take a step
SpecDown ==
    /\ DownInit /\ [][DownNext]_vars
    /\ WF_vars(DownMain)
    /\ \A i \in 1..DownWorkers : WF_vars(WorkerLock(i))

\* The frames the server has put into the write buffer of client c's
\* connection so far
DownFramed(c) == Payloads(Written(c) \o Unsent(c))

\* main has returned 0 and the pool is stopped: every worker has exited and
\* was joined
DownExited ==
    /\ loop.phase = "exit" /\ loop.exit_code = 0
    /\ pool.stop /\ tp_main.pc = "returned"
    /\ \A i \in DOMAIN threads : threads[i].pc = "exited"

\* After SHUTDOWN was dispatched the response is in the write buffer or on
\* its way to the client, and the loop is not in poll
DownNoPoll ==
    ~loop.running =>
        /\ loop.phase # "poll"
        /\ DownFramed(1) # <<>> /\ DownFramed(1)[1] = DownResponse

\* C16: once SHUTDOWN is dispatched, its STR response is in the write buffer
\* of the connection and g_running is false for good; the loop does not poll
\* again: it ends the iteration it is in and leaves at the top of the next,
\* after which main stops the worker pool and returns 0.
C16_ShutdownExits ==
    /\ []DownNoPoll
    /\ [][~loop.running => ~loop'.running]_vars
    /\ [](loop.exit_code \in {0 - 1, 0})
    /\ (~loop.running ~> DownExited)

\* main has returned 0 after a SHUTDOWN whose response was written to the
\* client in the iteration that dispatched it, the other client's SET having
\* been answered as well
C16_Witness ==
    /\ DownExited
    /\ DownFramed(1) = <<DownResponse>> /\ Written(1) # <<>>
    /\ DownFramed(2) # <<>>

-----------------------------------------------------------------------------
(* The tree as src/tests/test_avl.cpp drives it: a Container of Data nodes, *)
(* add and del by value, dispose's deletion of the root, and a multiset of  *)
(* the values as the reference                                              *)

AvlMaxNodes == 5
AvlMaxVal == 2
AvlVals == 0..AvlMaxVal

\* new Data() after avl_init, with its val
Data(val) ==
    [height |-> 1, count |-> 1, left |-> 0, right |-> 0, parent |-> 0, val |-> val]

\* The while loop of add: the node to attach under and the side
RECURSIVE add_search(_, _, _, _)
add_search(T, val, cur, from) ==
    IF T[cur][from] = 0 THEN [cur |-> cur, from |-> from]
    ELSE Let(T[cur][from], LAMBDA next :
             add_search(T, val, next, IF val < T[next].val THEN "left" ELSE "right"))

add(c, val) ==
    Let(malloc(c.T), LAMBDA data :
    Let((data :> Data(val)) @@ c.T, LAMBDA T1 :
    Let(IF c.root = 0 THEN [cur |-> 0, from |-> "root"]
        ELSE add_search(T1, val, c.root,
                        IF val < T1[c.root].val THEN "left" ELSE "right"), LAMBDA at :
    Let(avl_fix(IF at.cur = 0 THEN T1
                ELSE [T1 EXCEPT ![at.cur][at.from] = data, ![data].parent = at.cur],
                data), LAMBDA f :
        [root |-> f.ret, T |-> f.T]))))

\* The while loop of del: the first node with the value on the way down
RECURSIVE del_search(_, _, _)
del_search(T, cur, val) ==
    IF cur = 0 THEN 0
    ELSE IF val = T[cur].val THEN cur
    ELSE del_search(T, IF val < T[cur].val THEN T[cur].left ELSE T[cur].right, val)

\* avl_del of a node of the container and delete of its Data
del_node(c, cur) ==
    Let(avl_del(c.T, cur), LAMBDA d : [root |-> d.ret, T |-> free(d.T, cur)])

del(c, val) ==
    Let(del_search(c.T, c.root, val), LAMBDA cur :
        IF cur = 0 THEN [c |-> c, ret |-> FALSE]
        ELSE [c |-> del_node(c, cur), ret |-> TRUE])

\* extract: the values of the in-order walk
extract(c) ==
    Let(avl_walk(c.T, c.root), LAMBDA w : [i \in 1..Len(w) |-> c.T[w[i]].val])

\* std::multiset insert and erase of one element
RefInsert(s, val) ==
    Let(Cardinality({i \in 1..Len(s) : s[i] <= val}), LAMBDA k :
        SubSeq(s, 1, k) \o <<val>> \o SubSeq(s, k + 1, Len(s)))
RefErase(s, val) ==
    IF \E i \in 1..Len(s) : s[i] = val
    THEN RemoveAt(s, CHOOSE i \in 1..Len(s) : s[i] = val /\ \A j \in 1..(i - 1) : s[j] # val)
    ELSE s

AvlChildren(T, node) ==
    (IF T[node].left # 0 THEN 1 ELSE 0) + (IF T[node].right # 0 THEN 1 ELSE 0)

AvlCall(op, val, ret, node) ==
    [op |-> op, val |-> val, ret |-> ret,
     children |-> IF node # 0 THEN AvlChildren(avlc.T, node) ELSE 0,
     was_root |-> node # 0 /\ node = avlc.root, root |-> avlc.root]

AvlRest == <<zs_vars, dq_vars, pool_vars, hm_vars, data_vars, cmd_vars, srv_vars>>

AvlInit ==
    /\ AvlIdle /\ ZsIdle /\ DqIdle /\ PoolIdle
    /\ DataIdle /\ CmdIdle /\ HmIdle /\ SrvIdle

AvlAdd(val) ==
    /\ Len(avl_ref) < AvlMaxNodes
    /\ avlc' = add(avlc, val)
    /\ avl_ref' = RefInsert(avl_ref, val)
    /\ avl_last' = AvlCall("add", val, TRUE, 0)
    /\ UNCHANGED AvlRest

AvlDel(val) ==
    /\ \E r \in {del(avlc, val)} :
          /\ avlc' = r.c
          /\ avl_last' = AvlCall("del", val, r.ret, del_search(avlc.T, avlc.root, val))
    /\ avl_ref' = RefErase(avl_ref, val)
    /\ UNCHANGED AvlRest

\* One pass of dispose's loop: the root is deleted
AvlDelRoot ==
    /\ avlc.root # 0
    /\ avlc' = del_node(avlc, avlc.root)
    /\ avl_ref' = RefErase(avl_ref, avlc.T[avlc.root].val)
    /\ avl_last' = AvlCall("dispose", avlc.T[avlc.root].val, TRUE, avlc.root)
    /\ UNCHANGED AvlRest

AvlNext ==
    \/ \E val \in AvlVals : AvlAdd(val)
    \/ \E val \in AvlVals : AvlDel(val)
    \/ AvlDelRoot

SpecAVL == AvlInit /\ [][AvlNext]_vars

\* The nodes of the container in in-order
AvlNodes == avl_walk(avlc.T, avlc.root)

\* C19: with the in-order sequence v_0 .. v_{n-1} of the tree, after any
\* inserts and deletes, avl_offset(node(v_i), k) is node(v_{i+k}) when
\* 0 <= i+k < n and nullptr otherwise, for every i and every k, positive, zero
\* or negative, up to one step past both ends from every node.
C19_OffsetIsInOrder ==
    LET n == Len(AvlNodes)
    IN  \A i \in 1..n : \A k \in (0 - (n + 1))..(n + 1) :
            avl_offset(avlc.T, AvlNodes[i], k)
                = IF 1 <= i + k /\ i + k <= n THEN AvlNodes[i + k] ELSE 0

\* Offsets are taken in a tree of four nodes with a duplicate value, left by
\* the delete of a node with two children: from its first node four steps
\* forward is past the end and three steps forward is its last node
C19_Witness ==
    /\ Len(AvlNodes) = 4
    /\ avl_offset(avlc.T, AvlNodes[1], 4) = 0
    /\ avl_offset(avlc.T, AvlNodes[1], 3) = AvlNodes[4]
    /\ \E i \in 1..(Len(avl_ref) - 1) : avl_ref[i] = avl_ref[i + 1]
    /\ avl_last.op = "del" /\ avl_last.ret /\ avl_last.children = 2

\* C20: after any sequence of add (ordered insertion and avl_fix) and of
\* avl_del, the in-order walk of the tree yields the reference multiset in
\* ascending order, every Data of the container is walked once, and
\* avl_count(root) is the number of elements.
C20_WalkIsReference ==
    /\ extract(avlc) = avl_ref
    /\ Len(AvlNodes) = Cardinality(DOMAIN avlc.T)
    /\ {AvlNodes[i] : i \in 1..Len(AvlNodes)} = DOMAIN avlc.T
    /\ avl_count(avlc.T, avlc.root) = Len(avl_ref)

\* The root, with two children, was deleted from a tree that holds a
\* duplicate value
C20_Witness ==
    /\ avl_last.op \in {"del", "dispose"} /\ avl_last.ret
    /\ avl_last.was_root /\ avl_last.children = 2
    /\ \E i \in 1..(Len(avl_ref) - 1) : avl_ref[i] = avl_ref[i + 1]

\* Deletes of a leaf and of a node with one child, and a del of a value that
\* is not in the tree
C20_Leaf == avl_last.op = "del" /\ avl_last.ret /\ avl_last.children = 0 /\ avl_ref # <<>>
C20_OneChild == avl_last.op = "del" /\ avl_last.ret /\ avl_last.children = 1
C20_Missing == avl_last.op = "del" /\ ~avl_last.ret /\ avl_ref # <<>>

-----------------------------------------------------------------------------
(* The TTL heap under SET, DEL, EXPIRE and ZADD on a few keys, with the      *)
(* clock advancing and process_timers running between commands              *)

ExpStrKeys == {<<97>>, <<98>>}
ExpZKey == <<122>>
ExpKeys == ExpStrKeys \cup {ExpZKey}
\* The ms arguments of EXPIRE: the decimal text and the int64_t it denotes
ExpChoices ==
    {[text |-> <<49, 48>>, ms |-> I64(10)],
     [text |-> <<50, 48>>, ms |-> I64(20)],
     [text |-> <<45, 49>>, ms |-> I64(0 - 1)]}
\* The instants of the run, in microseconds: the clock starts at the first and
\* is moved to the second
ExpStart == 1000
ExpLater == 11000

ExpArgs(a) ==
    CASE a.op = "set" -> <<Str_set, a.key, <<118>>>>
      [] a.op = "zadd" -> <<Str_zadd, a.key, <<49>>, <<109>>>>
      [] a.op = "del" -> <<Str_del, a.key>>
      [] a.op = "expire" -> <<Str_expire, a.key, a.ttl.text>>

ExpCmds ==
    {[op |-> "set", key |-> k, ttl |-> TtlNone] : k \in ExpStrKeys}
    \cup {[op |-> "zadd", key |-> ExpZKey, ttl |-> TtlNone]}
    \cup {[op |-> "del", key |-> k, ttl |-> TtlNone] : k \in ExpKeys}
    \cup {[op |-> "expire", key |-> k, ttl |-> c] : k \in ExpKeys, c \in ExpChoices}

\* The entry of a key of the keyspace, 0 when the key is absent
ExpEntry(G, key) ==
    IF \E e \in DOMAIN G.ents : G.ents[e].key = key
    THEN CHOOSE e \in DOMAIN G.ents : G.ents[e].key = key ELSE 0

\* What entry_set_ttl does to the heap for the command: nothing, an append,
\* a changed deadline, or a removal (with the last slot moved when the slot
\* removed is not the last)
ExpKind(G, a, now) ==
    Let(ExpEntry(G, a.key), LAMBDA e :
        IF e = 0 THEN "none"
        ELSE Let(G.ents[e].heap_idx, LAMBDA pos :
             IF a.op = "del" \/ (a.op = "expire" /\ i64_negative(a.ttl.ms))
             THEN IF pos = SIZE_MAX THEN "none"
                  ELSE IF pos + 1 < Len(G.heap) THEN "moved" ELSE "popped"
             ELSE IF a.op # "expire" THEN "none"
             ELSE IF pos = SIZE_MAX THEN "appended"
             ELSE Let(u64_add(U64(now), u64_mul(a.ttl.ms, 1000)), LAMBDA val :
                  IF u64_less(val, G.heap[pos + 1].val) THEN "lowered"
                  ELSE IF u64_less(G.heap[pos + 1].val, val) THEN "raised"
                  ELSE "same")))

ExpNoCmd == [op |-> "none", kind |-> "none", n |-> 0]

\* The reference: for every key present its deadline in microseconds, -1 for
\* a key without a TTL
ExpRef(R, a, now) ==
    CASE a.op \in {"set", "zadd"} ->
           IF a.key \in DOMAIN R THEN R ELSE (a.key :> 0 - 1) @@ R
      [] a.op = "del" -> [k \in DOMAIN R \ {a.key} |-> R[k]]
      [] a.op = "expire" ->
           IF a.key \notin DOMAIN R THEN R
           ELSE IF i64_negative(a.ttl.ms) THEN [R EXCEPT ![a.key] = 0 - 1]
           ELSE [R EXCEPT ![a.key] = now + IntOf(a.ttl.ms) * 1000]
\* The reference after a timer pass: the keys whose deadline has passed are gone
ExpRefTimers(R, now) ==
    [k \in {j \in DOMAIN R : R[j] = 0 - 1 \/ R[j] >= now + 1000} |-> R[k]]
RECURSIVE ExpRefApply(_, _, _)
ExpRefApply(R, cmds, i) ==
    IF i > Len(cmds) THEN R ELSE ExpRefApply(ExpRef(R, cmds[i], ExpStart), cmds, i + 1)

\* The keyspace after SET a, SET b and ZADD z
ExpSetup ==
    <<[op |-> "set", key |-> <<97>>, ttl |-> TtlNone],
      [op |-> "set", key |-> <<98>>, ttl |-> TtlNone],
      [op |-> "zadd", key |-> ExpZKey, ttl |-> TtlNone]>>
RECURSIVE ExpApply(_, _, _)
ExpApply(G, cmds, i) ==
    IF i > Len(cmds) THEN G
    ELSE ExpApply(do_request(G, ExpArgs(cmds[i]), <<>>, ExpStart).g, cmds, i + 1)

ExpInit ==
    /\ \E G \in {ExpApply(G_init, ExpSetup, 1)} :
           db = G.db /\ ents = G.ents /\ heap = G.heap
    /\ crashed = FALSE
    /\ ref = ExpRefApply(<<>>, ExpSetup, 1) /\ last = ExpNoCmd /\ cmd_limit = 0
    /\ HmIdle /\ LibIdle
    /\ conns = <<>> /\ idle_conns = <<>> /\ clock = ExpStart /\ loop = LoopOff
    /\ net = <<>> /\ backlog = <<>> /\ gh = GhNone

\* One command through do_request at the present time
ExpDispatch(a) ==
    /\ ~crashed
    /\ \E r \in {do_request(G_data, ExpArgs(a), <<>>, clock)} :
       \E o \in (IF r.ub THEN UBOutcomes ELSE {"defined"}) :
           IF o = "killed"
           THEN crashed' = TRUE /\ UNCHANGED <<db, ents, heap, last, ref>>
           ELSE /\ crashed' = FALSE
                /\ db' = r.g.db /\ ents' = r.g.ents /\ heap' = r.g.heap
                /\ last' = [op |-> a.op, kind |-> ExpKind(G_data, a, clock),
                            n |-> 0]
                /\ ref' = ExpRef(ref, a, clock)
    /\ UNCHANGED <<cmd_limit, lib_vars, hm_vars, srv_vars>>

\* process_timers at the present time
ExpTimers ==
    /\ ~crashed
    /\ \E p \in {process_timers(Server, clock)} :
           /\ Commit(p, loop)
           /\ last' = [op |-> "timers", kind |-> "none",
                       n |-> Len(heap) - Len(p.g.heap)]
    /\ ref' = IF crashed' THEN ref ELSE ExpRefTimers(ref, clock)
    /\ UNCHANGED <<cmd_limit, lib_vars, hm_vars, clock, backlog>>

ExpElapse ==
    /\ clock < ExpLater
    /\ clock' = ExpLater
    /\ UNCHANGED <<lib_vars, hm_vars, data_vars, cmd_vars, conns, idle_conns, loop, net,
                   backlog, gh>>

ExpNext ==
    \/ \E a \in ExpCmds : ExpDispatch(a)
    \/ ExpTimers
    \/ ExpElapse

SpecExp == ExpInit /\ [][ExpNext]_vars

-----------------------------------------------------------------------------
(* The TTL heap alone: EXPIRE on five string keys, with positive and        *)
(* negative ms                                                               *)

HeapKeys == {<<97>>, <<98>>, <<99>>, <<100>>, <<101>>}
HeapSetup ==
    <<[op |-> "set", key |-> <<97>>, ttl |-> TtlNone],
      [op |-> "set", key |-> <<98>>, ttl |-> TtlNone],
      [op |-> "set", key |-> <<99>>, ttl |-> TtlNone],
      [op |-> "set", key |-> <<100>>, ttl |-> TtlNone],
      [op |-> "set", key |-> <<101>>, ttl |-> TtlNone]>>
HeapCmds == {[op |-> "expire", key |-> k, ttl |-> c] : k \in HeapKeys, c \in ExpChoices}

HeapInit ==
    /\ \E G \in {ExpApply(G_init, HeapSetup, 1)} :
           db = G.db /\ ents = G.ents /\ heap = G.heap
    /\ crashed = FALSE
    /\ ref = ExpRefApply(<<>>, HeapSetup, 1) /\ last = ExpNoCmd /\ cmd_limit = 0
    /\ HmIdle /\ LibIdle
    /\ conns = <<>> /\ idle_conns = <<>> /\ clock = ExpStart /\ loop = LoopOff
    /\ net = <<>> /\ backlog = <<>> /\ gh = GhNone

HeapNext == \E a \in HeapCmds : ExpDispatch(a)

SpecHeap == HeapInit /\ [][HeapNext]_vars

\* C21: after every heap_update on the TTL heap (a deadline appended, raised
\* or lowered, or the last slot moved into the slot of a removed deadline) no
\* slot i > 0 holds a deadline below the one of its parent, and the heap_idx
\* that the ref of every slot i points at is i.
C21_HeapOrdered ==
    /\ \A i \in 1..(Len(heap) - 1) :
           ~u64_less(heap[i + 1].val, heap[heap_parent(i) + 1].val)
    /\ \A i \in 0..(Len(heap) - 1) :
           heap[i + 1].ref \in DOMAIN ents /\ ents[heap[i + 1].ref].heap_idx = i

\* A deadline was removed from a heap of five and the last slot was moved
\* into its slot
C21_Witness ==
    /\ last.kind = "moved" /\ Len(heap) = 4
    /\ \E e \in DOMAIN ents : ents[e].heap_idx = SIZE_MAX

\* A deadline was appended, raised and lowered in a heap of four or more
C21_Appended == last.kind = "appended" /\ Len(heap) = 5
C21_Raised == last.kind = "raised" /\ Len(heap) >= 4
C21_Lowered == last.kind = "lowered" /\ Len(heap) >= 4

\* The entries linked in the keyspace, and the slots of the heap that refer
\* to an entry
ExpLinked == {n.id : n \in ErrDbNodes(db)}
ExpSlots(e) == {i \in 0..(Len(heap) - 1) : heap[i + 1].ref = e}

\* C22: after any sequence of SET, DEL, EXPIRE and ZADD commands and timer
\* passes, an entry of the keyspace has heap_idx SIZE_MAX iff its key has no
\* TTL; otherwise one heap slot and no other refers to it and heap_idx is the
\* index of that slot; no heap slot refers to an entry that is not in the
\* keyspace; and the heap is as long as the number of keys with a TTL.
C22_HeapIndexAgrees ==
    /\ {ents[e].key : e \in ExpLinked} = DOMAIN ref
    /\ ExpLinked = DOMAIN ents
    /\ \A e \in ExpLinked :
           IF ref[ents[e].key] = 0 - 1
           THEN ents[e].heap_idx = SIZE_MAX /\ ExpSlots(e) = {}
           ELSE /\ ents[e].heap_idx # SIZE_MAX
                /\ ExpSlots(e) = {ents[e].heap_idx}
                /\ heap[ents[e].heap_idx + 1].val = U64(ref[ents[e].key])
    /\ \A i \in 1..Len(heap) : heap[i].ref \in ExpLinked
    /\ Len(heap) = Cardinality({k \in DOMAIN ref : ref[k] # 0 - 1})

\* A timer pass has removed two keys whose deadline had passed and left a
\* key with a later deadline in the heap
C22_Witness ==
    /\ last.op = "timers" /\ last.n = 2 /\ Len(heap) = 1
    /\ Cardinality(DOMAIN ref) = 1

\* A key with a TTL was deleted, and a key lost its TTL, with other deadlines
\* in the heap
C22_Deleted == last.op = "del" /\ last.kind \in {"moved", "popped"} /\ heap # <<>>
C22_Persisted == last.op = "expire" /\ last.kind = "moved"

-----------------------------------------------------------------------------
(* The thread pool statement by statement: the mutex is a field of the pool *)
(* (0 when free, else the thread that holds it: a worker's number, or       *)
(* MxMain for the thread that submits and shuts down), and every read or    *)
(* write of the queue and of stop is recorded with the holder at that time  *)

MxWorkers == 2
MxMaxTasks == 2
MxMain == 0 - 1

MxNoAccess == [who |-> 0, what |-> "none", held |-> TRUE, joined |-> 0]
\* The access of thread who to the queue or to stop, in the present state
MxAccess(who, what) ==
    [who |-> who, what |-> what, held |-> pool.mutex = who, joined |-> tp_main.joined]

MxInit ==
    /\ pool = [queue |-> create_deque, stop |-> FALSE, mutex |-> 0]
    /\ threads = [i \in 1..MxWorkers |-> [pc |-> "lock", task |-> 0]]
    /\ tp_main = TpMainIdle
    /\ tp_stack = [a \in TpSlots |-> Indeterminate]
    /\ tp_hist = [submitted |-> <<>>, executed |-> <<>>, killed |-> FALSE,
                  access |-> MxNoAccess]
    /\ ZsIdle /\ DqIdle /\ AvlIdle /\ DataIdle /\ CmdIdle /\ HmIdle /\ SrvIdle

\* worker: pthread_mutex_lock, and the lock taken again on the way out of
\* pthread_cond_wait
MxWorkerLock(i) ==
    /\ ~tp_hist.killed /\ threads[i].pc \in {"lock", "relock"}
    /\ pool.mutex = 0
    /\ pool' = [pool EXCEPT !.mutex = i]
    /\ threads' = [threads EXCEPT ![i].pc = "test"]
    /\ UNCHANGED <<tp_main, tp_stack, tp_hist, TpRest>>

\* while (deque_empty(pool->queue) && !pool->stop) pthread_cond_wait(...):
\* the wait releases the mutex
MxWorkerTest(i) ==
    /\ ~tp_hist.killed /\ threads[i].pc = "test"
    /\ tp_hist' = [tp_hist EXCEPT !.access = MxAccess(i, "queue and stop")]
    /\ IF deque_empty(pool.queue) /\ ~pool.stop
       THEN /\ threads' = [threads EXCEPT ![i].pc = "wait"]
            /\ pool' = [pool EXCEPT !.mutex = 0]
       ELSE /\ threads' = [threads EXCEPT ![i].pc = "check"]
            /\ UNCHANGED pool
    /\ UNCHANGED <<tp_main, tp_stack, TpRest>>

\* if (pool->stop) { pthread_mutex_unlock; pthread_exit }
MxWorkerCheck(i) ==
    /\ ~tp_hist.killed /\ threads[i].pc = "check"
    /\ tp_hist' = [tp_hist EXCEPT !.access = MxAccess(i, "stop")]
    /\ threads' = [threads EXCEPT ![i].pc = IF pool.stop THEN "leave" ELSE "take"]
    /\ UNCHANGED <<pool, tp_main, tp_stack, TpRest>>

MxWorkerLeave(i) ==
    /\ ~tp_hist.killed /\ threads[i].pc = "leave"
    /\ pool' = [pool EXCEPT !.mutex = 0]
    /\ threads' = [threads EXCEPT ![i].pc = "exited"]
    /\ UNCHANGED <<tp_main, tp_stack, tp_hist, TpRest>>

\* task = *(Worker *) deque_front(pool->queue); deque_pop_front(pool->queue)
MxWorkerTake(i) ==
    /\ ~tp_hist.killed /\ threads[i].pc = "take"
    /\ tp_hist' = [tp_hist EXCEPT !.access = MxAccess(i, "queue")]
    /\ \E a \in {deque_front(pool.queue)} :
       \E o \in (IF tp_main.slot = a THEN {"intact"} ELSE StackOutcomes) :
           /\ threads' = [threads EXCEPT
                             ![i] = [pc |-> "unlock",
                                     task |-> IF o = "intact" THEN tp_stack[a]
                                              ELSE Indeterminate]]
           /\ pool' = [pool EXCEPT !.queue = deque_pop_front(@).deque]
    /\ UNCHANGED <<tp_main, tp_stack, TpRest>>

\* A worker that goes on to run the task with the mutex still held
MxWorkerKeepsMutex(i) ==
    /\ ~tp_hist.killed /\ threads[i].pc = "unlock"
    /\ threads' = [threads EXCEPT ![i].pc = "run"]
    /\ UNCHANGED <<pool, tp_main, tp_stack, tp_hist, TpRest>>

\* pthread_mutex_unlock before the task is run
MxWorkerUnlock(i) ==
    /\ ~tp_hist.killed /\ threads[i].pc = "unlock"
    /\ pool' = [pool EXCEPT !.mutex = 0]
    /\ threads' = [threads EXCEPT ![i].pc = "run"]
    /\ UNCHANGED <<tp_main, tp_stack, tp_hist, TpRest>>

\* pthread_cond_wait may return without a signal
MxWorkerSpurious(i) ==
    /\ ~tp_hist.killed /\ threads[i].pc = "wait"
    /\ threads' = [threads EXCEPT ![i].pc = "relock"]
    /\ UNCHANGED <<pool, tp_main, tp_stack, tp_hist, TpRest>>

\* thread_pool_queue: Worker task = {function, arg} at address a of the stack
MxQueueEnter(a) ==
    /\ ~tp_hist.killed /\ tp_main.pc = "idle"
    /\ Len(tp_hist.submitted) < MxMaxTasks
    /\ \E task \in {Len(tp_hist.submitted) + 1} :
           /\ tp_stack' = [tp_stack EXCEPT ![a] = task]
           /\ tp_hist' = [tp_hist EXCEPT !.submitted = Append(@, task)]
    /\ tp_main' = [tp_main EXCEPT !.pc = "q_lock", !.slot = a]
    /\ UNCHANGED <<pool, threads, TpRest>>

\* pthread_mutex_lock of thread_pool_queue and of thread_pool_destroy
MxMainLock ==
    /\ ~tp_hist.killed /\ tp_main.pc \in {"q_lock", "d_lock"}
    /\ pool.mutex = 0
    /\ pool' = [pool EXCEPT !.mutex = MxMain]
    /\ tp_main' = [tp_main EXCEPT !.pc = IF tp_main.pc = "q_lock" THEN "q_push" ELSE "d_stop"]
    /\ UNCHANGED <<threads, tp_stack, tp_hist, TpRest>>

\* deque_push_back(pool->queue, &task)
MxQueuePush ==
    /\ ~tp_hist.killed /\ tp_main.pc = "q_push"
    /\ tp_hist' = [tp_hist EXCEPT !.access = MxAccess(MxMain, "queue")]
    /\ pool' = [pool EXCEPT !.queue = deque_push_back(@, tp_main.slot, "inplace")]
    /\ tp_main' = [tp_main EXCEPT !.pc = "q_unlock"]
    /\ UNCHANGED <<threads, tp_stack, TpRest>>

\* pthread_mutex_unlock of thread_pool_queue and of thread_pool_destroy
MxMainUnlock ==
    /\ ~tp_hist.killed /\ tp_main.pc \in {"q_unlock", "d_unlock"}
    /\ pool' = [pool EXCEPT !.mutex = 0]
    /\ tp_main' = [tp_main EXCEPT !.pc = IF tp_main.pc = "q_unlock" THEN "signal" ELSE "join"]
    /\ UNCHANGED <<threads, tp_stack, tp_hist, TpRest>>

\* pthread_cond_signal and the return of thread_pool_queue
MxSignal ==
    /\ ~tp_hist.killed /\ tp_main.pc = "signal"
    /\ \E W \in {{i \in DOMAIN threads : threads[i].pc = "wait"}} :
           IF W = {} THEN UNCHANGED threads
           ELSE \E i \in W : threads' = [threads EXCEPT ![i].pc = "relock"]
    /\ tp_main' = [tp_main EXCEPT !.pc = "idle", !.slot = 0]
    /\ UNCHANGED <<pool, tp_stack, tp_hist, TpRest>>

\* thread_pool_destroy is called
MxDestroyEnter ==
    /\ ~tp_hist.killed /\ tp_main.pc = "idle"
    /\ tp_main' = [tp_main EXCEPT !.pc = "d_lock"]
    /\ UNCHANGED <<pool, threads, tp_stack, tp_hist, TpRest>>

\* pool->stop = true without the broadcast
MxDestroyStopSilent ==
    /\ ~tp_hist.killed /\ tp_main.pc = "d_stop"
    /\ tp_hist' = [tp_hist EXCEPT !.access = MxAccess(MxMain, "stop")]
    /\ pool' = [pool EXCEPT !.stop = TRUE]
    /\ tp_main' = [tp_main EXCEPT !.pc = "d_unlock"]
    /\ UNCHANGED <<threads, tp_stack, TpRest>>

\* pool->stop = true; pthread_cond_broadcast(&pool->condition)
MxDestroyStop ==
    /\ ~tp_hist.killed /\ tp_main.pc = "d_stop"
    /\ tp_hist' = [tp_hist EXCEPT !.access = MxAccess(MxMain, "stop")]
    /\ pool' = [pool EXCEPT !.stop = TRUE]
    /\ threads' = [i \in DOMAIN threads |->
                      IF threads[i].pc = "wait" THEN [threads[i] EXCEPT !.pc = "relock"]
                      ELSE threads[i]]
    /\ tp_main' = [tp_main EXCEPT !.pc = "d_unlock"]
    /\ UNCHANGED <<tp_stack, TpRest>>

\* pthread_join of the next thread, which has exited
MxJoin ==
    /\ ~tp_hist.killed /\ tp_main.pc = "join"
    /\ tp_main.joined < Len(threads)
    /\ threads[tp_main.joined + 1].pc = "exited"
    /\ tp_main' = [tp_main EXCEPT !.joined = @ + 1]
    /\ UNCHANGED <<pool, threads, tp_stack, tp_hist, TpRest>>

\* destroy_deque(pool->queue) after the last join, and the return
MxDestroyQueue ==
    /\ ~tp_hist.killed /\ tp_main.pc = "join"
    /\ tp_main.joined = Len(threads)
    /\ tp_hist' = [tp_hist EXCEPT !.access = MxAccess(MxMain, "queue")]
    /\ tp_main' = [tp_main EXCEPT !.pc = "returned"]
    /\ UNCHANGED <<pool, threads, tp_stack, TpRest>>

MxNext ==
    \/ \E i \in DOMAIN threads : MxWorkerLock(i)
    \/ \E i \in DOMAIN threads : MxWorkerTest(i)
    \/ \E i \in DOMAIN threads : MxWorkerCheck(i)
    \/ \E i \in DOMAIN threads : MxWorkerLeave(i)
    \/ \E i \in DOMAIN threads : MxWorkerTake(i)
    \/ \E i \in DOMAIN threads : MxWorkerUnlock(i)
    \/ \E i \in DOMAIN threads : WorkerRun(i)
    \/ \E i \in DOMAIN threads : MxWorkerSpurious(i)
    \/ \E a \in TpSlots : MxQueueEnter(a)
    \/ MxMainLock
    \/ MxQueuePush
    \/ MxMainUnlock
    \/ MxSignal
    \/ MxDestroyEnter
    \/ MxDestroyStop
    \/ MxJoin
    \/ MxDestroyQueue

SpecMx == MxInit /\ [][MxNext]_vars

\* A thread that runs a task does not hold the mutex
MxRunsOutside == \A i \in DOMAIN threads : threads[i].pc = "run" => pool.mutex # i

\* C24: every read or write of the task queue and of stop, by the submitting
\* thread, by the thread that shuts the pool down and by every worker, is made
\* by a thread that holds the mutex of the pool, and a worker that runs a task
\* has released the mutex before.
C24_AccessesUnderMutex == tp_hist.access.held /\ MxRunsOutside

\* C24 as the code has it: the accesses are made with the mutex held as long
\* as a worker thread is left; destroy_deque, after the last pthread_join, is
\* made by thread_pool_destroy without the mutex.
C24_AccessesUnderMutexWhileShared ==
    /\ tp_hist.access.held \/ (tp_hist.access.who = MxMain
                               /\ tp_hist.access.joined = Len(threads))
    /\ MxRunsOutside

\* Two workers run their tasks at the same time while a third thread is in
\* the critical section
C24_Witness ==
    /\ \A i \in DOMAIN threads : threads[i].pc = "run"
    /\ pool.mutex = MxMain

\* thread_pool_destroy has destroyed the queue
C24_QueueDestroyed == tp_main.pc = "returned" /\ ~tp_hist.access.held

-----------------------------------------------------------------------------
(* The poll timeout: up to two keys hold a TTL given at time 0, and two     *)
(* clients that send nothing connect when they like and may close.  Time    *)
(* passes whenever poll has nothing to report.                              *)

WakeTtls == {100, 5500, 20000}      \* milliseconds
WakeNoTtl == 0 - 1
WakeKeys == <<TimerKey, TimerOther>>

\* g_data and the deadlines granted after SET and EXPIRE of the keys at time 0
RECURSIVE WakePreloaded(_, _, _)
WakePreloaded(G, ttl, i) ==
    IF i > Len(WakeKeys) THEN G
    ELSE IF ttl[i] = WakeNoTtl THEN WakePreloaded(G, ttl, i + 1)
    ELSE Let(do_request(G, Encode(TimerSet(WakeKeys[i])), <<>>, 0), LAMBDA r :
         WakePreloaded(do_request(r.g, Encode(TimerExpire(WakeKeys[i], ttl[i])), <<>>, 0).g,
                       ttl, i + 1))

WakeDeadlines(ttl) ==
    [k \in {WakeKeys[i] : i \in {j \in 1..Len(WakeKeys) : ttl[j] # WakeNoTtl}} |->
        Let(CHOOSE i \in 1..Len(WakeKeys) : WakeKeys[i] = k, LAMBDA i : ttl[i] * 1000)]

WakeInit ==
    \E t1 \in WakeTtls \cup {WakeNoTtl}, t2 \in WakeTtls \cup {WakeNoTtl} :
        SrvInit(<<Client(<<>>, "init"), Client(<<>>, "init")>>,
                WakePreloaded(G_init, <<t1, t2>>, 1),
                [GhNone EXCEPT !.deadline = WakeDeadlines(<<t1, t2>>)])

WakeNext ==
    \/ ServerStep
    \/ \E t \in TimerInstants \cup {loop.wake} : Elapse(t)
    \/ \E c \in DOMAIN net : ClientConnect(c)
    \/ \E c \in DOMAIN net : ClientClose(c)

SpecWake == WakeInit /\ [][WakeNext]_vars

\* min(idle-list head's idle_start + 5 s, heap root's deadline, now + 10 s),
\* in microseconds
WakeEarliest ==
    Let(clock + 10 * 1000 * 1000, LAMBDA cap :
    Let(IF idle_conns # <<>> THEN Min(cap, Deadline(Head(idle_conns))) ELSE cap, LAMBDA m :
        IF heap # <<>> THEN Min(m, IntOf(heap[1].val)) ELSE m))

\* C25: at the top of every loop iteration the timeout next_timer hands to
\* poll is max(0, min(idle-list head's idle_start + 5 s, heap root's deadline,
\* now + 10 s) - now), in whole milliseconds
C25_PollTimeout ==
    (loop.phase = "top" /\ loop.running) =>
        next_timer(conns, idle_conns, heap, clock) = Max(0, WakeEarliest - clock) \div 1000

\* The loop plans to sleep past the root's deadline: the last heap item is not
\* due before the idle deadline and the root is
C25_PastRoot ==
    /\ loop.phase = "top" /\ idle_conns # <<>> /\ heap # <<>>
    /\ IntOf(heap[1].val) < Deadline(Head(idle_conns))
    /\ clock + next_timer(conns, idle_conns, heap, clock) * 1000 >= IntOf(heap[1].val) + 1000

\* The loop plans to sleep for more than 10 s
C25_PastCap ==
    /\ loop.phase = "top"
    /\ next_timer(conns, idle_conns, heap, clock) > 10 * 1000

-----------------------------------------------------------------------------
(* A timer pass over a large keyspace: the keys 1..n were SET and given a   *)
(* TTL of 1 to 9 ms at the first instant, for n around k_max_works.  The    *)
(* clock is moved past every deadline of the start and a timer pass is     *)
(* made; after it two of the keys may be SET, given a TTL, persisted or       *)
(* deleted, and further passes are made.                                    *)

PassKeys == 2002       \* the largest number of keys of the start
PassProbes == {1, 2}
PassTtl(i) == [text |-> <<49 + (i % 9)>>, ms |-> I64(1 + (i % 9))]
PassCmd(op, i, ttl) == [op |-> op, key |-> KvKey(i), ttl |-> ttl]

\* SET and EXPIRE of the keys lo..hi in increasing order through do_request
\* (halved, to keep the evaluation shallow)
RECURSIVE PassSetRange(_, _, _)
PassSetRange(G, lo, hi) ==
    IF lo > hi THEN G
    ELSE IF lo = hi
    THEN ExpApply(G, <<PassCmd("set", lo, TtlNone), PassCmd("expire", lo, PassTtl(lo))>>, 1)
    ELSE Let(PassSetRange(G, lo, (lo + hi) \div 2), LAMBDA half :
             IF hm_size(half.db) >= 0 THEN PassSetRange(half, ((lo + hi) \div 2) + 1, hi)
             ELSE half)

PassCmds ==
    {PassCmd("expire", i, c) : i \in PassProbes, c \in ExpChoices}
    \cup {PassCmd(op, i, TtlNone) : op \in {"del", "set"}, i \in PassProbes}

PassInit ==
    /\ \E n \in {PassKeys - 2, PassKeys - 1, PassKeys} :
           \E G \in {PassSetRange(G_init, 1, n)} :
               db = G.db /\ ents = G.ents /\ heap = G.heap
    /\ crashed = FALSE
    /\ ref = <<>> /\ last = [ExpNoCmd EXCEPT !.n = <<0, 0, 0>>] /\ cmd_limit = 0
    /\ HmIdle /\ LibIdle
    /\ conns = <<>> /\ idle_conns = <<>> /\ clock = ExpStart /\ loop = LoopOff
    /\ net = <<>> /\ backlog = <<>> /\ gh = GhNone

\* One command through do_request at the present time
PassDispatch(a) ==
    /\ ~crashed
    /\ \E r \in {do_request(G_data, ExpArgs(a), <<>>, clock)} :
       \E o \in (IF r.ub THEN UBOutcomes ELSE {"defined"}) :
           IF o = "killed"
           THEN crashed' = TRUE /\ UNCHANGED <<db, ents, heap, last>>
           ELSE /\ crashed' = FALSE
                /\ db' = r.g.db /\ ents' = r.g.ents /\ heap' = r.g.heap
                /\ last' = [op |-> a.op, kind |-> ExpKind(G_data, a, clock),
                            n |-> <<0, 0, 0>>]
    /\ UNCHANGED <<ref, cmd_limit, lib_vars, hm_vars, srv_vars>>

\* The latest deadline, in microseconds, of the heap items of H whose entry is
\* not in E; 0 when there is none
PassLatest(H, E) ==
    Let({IntOf(H[i].val) : i \in {j \in 1..Len(H) : H[j].ref \notin DOMAIN E}}, LAMBDA s :
        IF s = {} THEN 0 ELSE CHOOSE v \in s : \A w \in s : w <= v)

\* process_timers at the present time; last.n is the number of entries the
\* pass took from the keyspace, the number of items it took from the heap and
\* the latest deadline among them
PassTimers ==
    /\ ~crashed
    /\ \E p \in {process_timers(Server, clock)} :
           /\ Commit(p, loop)
           /\ last' = [op |-> "timers", kind |-> "none",
                       n |-> <<hm_size(db) - hm_size(p.g.db),
                               Len(heap) - Len(p.g.heap),
                               PassLatest(heap, p.g.ents)>>]
    /\ UNCHANGED <<ref, cmd_limit, lib_vars, hm_vars, clock, backlog>>

\* The clock is moved past the deadlines of the start, a timer pass is made,
\* and commands and further passes follow in any order
PassNext ==
    \/ ExpElapse
    \/ clock = ExpLater /\ PassTimers
    \/ \E a \in PassCmds : last.op # "none" /\ PassDispatch(a)

SpecPass == PassInit /\ [][PassNext]_vars

\* What a pass removed was removed from the keyspace and from the heap, and no
\* item the pass left in the heap is due before one it removed
PassTookRoots ==
    /\ last.n[1] = last.n[2]
    /\ heap # <<>> => last.n[3] <= IntOf(heap[1].val)
    /\ Cardinality(DOMAIN ents) = hm_size(db)

\* C26: a timer pass removes at most 2000 entries from the keyspace, however
\* many deadlines are due; each entry it removes is the heap root when it is
\* removed, so the due entries it leaves are not due before those it removed
C26_PassRemovesAtMost ==
    last.op = "timers" => last.n[1] <= 2000 /\ PassTookRoots

\* The same with the bound the loop has: the test nworks++ >= k_max_works is
\* made after the removal, so a pass removes up to k_max_works + 1 entries
C26_PassRemovesAtMostOneMore ==
    last.op = "timers" => last.n[1] <= k_max_works + 1 /\ PassTookRoots

\* A pass has removed more than 2000 entries and has left a due entry, which
\* the next pass removes
C26_PassLeftDue ==
    /\ last.op = "timers" /\ last.n[1] > 2000 /\ ttl_due(Server, clock + 1000)
    /\ Len(heap) = 1


-----------------------------------------------------------------------------
(* The idle list, in the runs of SpecTimers *)

IdleFds == {idle_conns[i] : i \in 1..Len(idle_conns)}

\* The descriptor ConnectionIO serves next
IdleNextFd == CHOOSE f \in loop.ready : \A h \in loop.ready : f <= h

\* A step that is connection_io of a descriptor leaves the connection, when it
\* is not closed by the step, at the tail with the time of the step
IdleMovedToTail ==
    (loop.phase = "io" /\ loop.ready # {} /\ loop'.ready # loop.ready
     /\ IdleNextFd \in DOMAIN conns') =>
        /\ idle_conns' # <<>> /\ idle_conns'[Len(idle_conns')] = IdleNextFd
        /\ conns'[IdleNextFd].idle_start = clock

IdleListSound ==
    /\ IdleFds = DOMAIN conns
    /\ Len(idle_conns) = Cardinality(DOMAIN conns)
    /\ \A fd \in DOMAIN conns : ~net[conns[fd].peer].closed
    /\ \A c \in DOMAIN net : net[c].closed => \A fd \in IdleFds : conns[fd].peer # c
    /\ \A i \in 1..Len(idle_conns), j \in 1..Len(idle_conns) :
           i < j => conns[idle_conns[i]].idle_start <= conns[idle_conns[j]].idle_start

\* C27: in every state each connection of the fd table is in the idle list
\* exactly once and no closed connection is in it, the list from its head is in
\* non-decreasing idle_start order, and every connection_io moves its
\* connection to the tail with idle_start set to the present time
C27_IdleList == [](IdleListSound) /\ [][IdleMovedToTail]_vars

\* Two connections are open, and the one accepted first is behind the other in
\* the idle list with a later idle_start: an I/O event has moved it
C27_Witness ==
    /\ Len(idle_conns) = 2 /\ idle_conns[2] < idle_conns[1]
    /\ conns[idle_conns[1]].idle_start < conns[idle_conns[2]].idle_start
    /\ loop.phase = "accept"

\* A connection was closed while another stays in the list
C27_Closed ==
    /\ Len(idle_conns) = 1 /\ \E c \in DOMAIN net : net[c].closed

-----------------------------------------------------------------------------
(* The structure of the two tables, in the runs of SpecHM *)

\* The number of nodes linked in the buckets lo..hi of a table (halved, to
\* keep the evaluation shallow)
RECURSIVE TabLinked(_, _, _)
TabLinked(htab, lo, hi) ==
    IF lo > hi THEN 0
    ELSE IF lo = hi THEN Len(htab.tab[lo])
    ELSE TabLinked(htab, lo, (lo + hi) \div 2) + TabLinked(htab, ((lo + hi) \div 2) + 1, hi)

TabKeys(htab) == {n.key : n \in ErrTabNodes(htab)}

TabSound(htab) ==
    /\ IF htab.tab = <<>> THEN htab.mask = 0 /\ htab.size = 0
       ELSE /\ DOMAIN htab.tab = 0..htab.mask
            /\ htab.size = TabLinked(htab, 0, htab.mask)
    /\ \A pos \in DOMAIN htab.tab : \A i \in 1..Len(htab.tab[pos]) :
           HashAnd(htab.tab[pos][i].hcode, htab.mask) = pos

\* C28: no key is linked in both tables, the size field of each table is the
\* number of nodes linked in its buckets, every node is in the bucket
\* hcode & mask of its table, and hm_size is the sum of the two size fields
\* (the number of nodes linked in the map)
C28_TablesSound ==
    /\ TabKeys(hmap.ht1) \cap TabKeys(hmap.ht2) = {}
    /\ TabSound(hmap.ht1) /\ TabSound(hmap.ht2)
    /\ hm_size(hmap) = hmap.ht1.size + hmap.ht2.size
    /\ hm_size(hmap) = Cardinality(ErrDbNodes(hmap))

\* A rehash is in progress, both tables hold more than k_resizing_work nodes,
\* and the last call popped a key from the current table
C28_Witness ==
    /\ hmap.ht2.size > k_resizing_work /\ hmap.ht1.size > k_resizing_work
    /\ hm_last.op = "pop" /\ hm_last.rehash /\ hm_last.ret = hm_last.key

\* In a step: the call has put a new table in the place of the current one
HmStarted == hmap.ht1.tab # <<>> /\ hmap'.ht1.mask # hmap.ht1.mask

\* In a step: the keys of the retiring table the call works on, which is the
\* current table with the new node when the call starts the rehash
HmRetiring ==
    IF hmap.ht2.tab # <<>> THEN TabKeys(hmap.ht2)
    ELSE IF HmStarted THEN TabKeys(hmap.ht1) \cup {<<hm_last'.key>>}
    ELSE {}

\* In a step: the keys the call has moved to the current table
HmRelocated == HmRetiring \cap TabKeys(hmap'.ht1)

HmStartRule ==
    hm_last'.op = "insert" =>
        /\ HmStarted <=> /\ hmap.ht2.tab = <<>>
                         /\ (hmap.ht1.size + 1) \div (hmap.ht1.mask + 1) >= 8
        /\ HmStarted =>
               /\ hmap'.ht1.mask + 1 = 2 * (hmap.ht1.mask + 1)
               /\ TabKeys(hmap'.ht1) \cup TabKeys(hmap'.ht2) = HmRetiring
               /\ hmap'.ht2.tab # <<>> => hmap'.ht2.mask = hmap.ht1.mask

\* During a rehash the current table has twice the capacity of the retiring
\* one and no bucket of the retiring table before the cursor holds a node: the
\* cursor started at 0.  Every capacity is a power of two.
HmCapsSound ==
    /\ hmap.ht1.tab # <<>> => IsPow2(hmap.ht1.mask + 1)
    /\ hmap.ht2.tab # <<>> =>
           /\ IsPow2(hmap.ht2.mask + 1)
           /\ hmap.ht1.mask + 1 = 2 * (hmap.ht2.mask + 1)
           /\ hmap.resizing_pos <= hmap.ht2.mask
           /\ \A pos \in 0..(hmap.resizing_pos - 1) : hmap.ht2.tab[pos] = <<>>

\* C29: hm_insert starts a rehash exactly when no retiring table exists and,
\* with the new node linked, size / capacity of the current table is at least
\* 8; the old current table becomes the retiring one, the new current table
\* has twice its capacity and the cursor starts at 0; no rehash starts while a
\* retiring table exists, and every capacity is a power of two
C29_RehashStart == [](HmCapsSound) /\ [][HmStartRule]_vars

\* The last insert has started a rehash of a table of more than
\* k_resizing_work nodes, which is still in progress
C29_Witness ==
    /\ hm_last.op = "insert" /\ ~hm_last.rehash
    /\ hmap.ht2.size > k_resizing_work /\ hmap.ht1.size = k_resizing_work

\* The last insert has started a rehash and finished it
C29_Small ==
    /\ hm_last.op = "insert" /\ ~hm_last.rehash
    /\ hmap.ht2.tab = <<>> /\ hmap.ht1.mask = 7 /\ hmap.ht1.size = 32

HmWorkBounded == Cardinality(HmRelocated) <= 128

\* C30: a call of hm_lookup, hm_insert or hm_pop moves at most 128 nodes from
\* the retiring table to the current one, and a retiring table exists only as
\* long as it holds a node: the call that moves the last node releases it
C30_BoundedWork == [](hmap.ht2.tab # <<>> => hmap.ht2.size > 0) /\ [][HmWorkBounded]_vars

\* The last call has ended a rehash that took several calls: a rehash was in
\* progress when it was made and none is now
C30_Witness ==
    /\ hm_last.rehash /\ hmap.ht2.tab = <<>> /\ hmap.ht1.mask = 127
    /\ hmap.ht1.size >= HmPreload

\* The last call has moved exactly 128 nodes and has left nodes to move
C30_Full ==
    /\ hm_last.rehash /\ hmap.ht2.size > 0
    /\ hmap.ht1.size >= 2 * k_resizing_work

-----------------------------------------------------------------------------
(* Deletion by the thread pool: the keys y and z hold sorted sets of more   *)
(* than 10'000 members and z has a TTL; a client deletes keys and sets a    *)
(* small key, timer passes are made, and the workers of the pool run.  A    *)
(* command or a timer pass is one step of the main thread.                  *)

DelMembers == 10001
DelWorkers == 1
DelBigKeys == {<<121>>, <<122>>}
DelTtlKey == <<122>>
DelSmallKey == <<97>>
\* The address of Worker task on the stack of thread_pool_queue, when it is
\* called from do_del and when it is called from process_timers
DelSlot(op) == IF op = "timers" THEN 2 ELSE 1

DelCmds ==
    {[op |-> "del", key |-> k, ttl |-> TtlNone] : k \in DelBigKeys}
    \cup {[op |-> "set", key |-> DelSmallKey, ttl |-> TtlNone]}

\* g_data after ZADD of that many members to y and to z and EXPIRE z 10: the
\* first member is added through do_request, and the sorted set of the entry
\* is then the one zset_add builds from all of them
DelPreloaded(members) ==
    Let(ZsPreloaded(members), LAMBDA Z :
    Let(ExpApply(G_init, <<[op |-> "zadd", key |-> <<121>>, ttl |-> TtlNone],
                           [op |-> "zadd", key |-> <<122>>, ttl |-> TtlNone],
                           [op |-> "expire", key |-> DelTtlKey,
                            ttl |-> [text |-> <<49, 48>>, ms |-> I64(10)]]>>, 1),
        LAMBDA G :
        [G EXCEPT !.ents = [e \in DOMAIN G.ents |-> [G.ents[e] EXCEPT !.zset = Z]]]))

DelInit ==
    /\ \E G \in {DelPreloaded(DelMembers)} : db = G.db /\ ents = G.ents /\ heap = G.heap
    /\ crashed = FALSE
    /\ ref = <<>> /\ last = ExpNoCmd /\ cmd_limit = 0
    /\ PoolFresh /\ threads = [i \in 1..DelWorkers |-> [pc |-> "lock", task |-> 0]]
    /\ ZsIdle /\ DqIdle /\ AvlIdle /\ HmIdle
    /\ conns = <<>> /\ idle_conns = <<>> /\ clock = ExpStart /\ loop = LoopOff
    /\ net = <<>> /\ backlog = <<>> /\ gh = GhNone

DelLinked(hm) == {n.id : n \in ErrDbNodes(hm)}
DelHeapRefs == {heap[i].ref : i \in 1..Len(heap)}

\* The entries a step of the main thread has handed to thread_pool_queue:
\* those it has taken out of the keyspace and not freed
DelQueued(G) == (DelLinked(db) \ DelLinked(G.db)) \cap DOMAIN G.ents

\* thread_pool_queue for the entries of S (one at most in these runs), with
\* Worker task at address a: the address is pushed and one waiting thread,
\* if there is one, is woken
DelQueue(S, a) ==
    IF S = {} THEN UNCHANGED pool_vars
    ELSE \E e \in S :
         /\ tp_stack' = [tp_stack EXCEPT ![a] = e]
         /\ tp_hist' = [tp_hist EXCEPT !.submitted = Append(@, e)]
         /\ pool' = [pool EXCEPT !.queue = deque_push_back(@, a, "inplace")]
         /\ \E W \in {{i \in DOMAIN threads : threads[i].pc = "wait"}} :
                IF W = {} THEN UNCHANGED threads
                ELSE \E i \in W : threads' = [threads EXCEPT ![i].pc = "lock"]
         /\ UNCHANGED tp_main

\* The main thread reads a keyspace that links an entry a worker has freed
DelDangling == ~(DelLinked(db) \subseteq DOMAIN ents)

\* One command through do_request
DelDispatch(a) ==
    /\ ~crashed /\ ~tp_hist.killed
    /\ IF DelDangling
       THEN crashed' = TRUE /\ UNCHANGED <<db, ents, heap, last, pool_vars>>
       ELSE \E r \in {do_request(G_data, ExpArgs(a), <<>>, clock)} :
            \E o \in (IF r.ub THEN UBOutcomes ELSE {"defined"}) :
                IF o = "killed"
                THEN crashed' = TRUE /\ UNCHANGED <<db, ents, heap, last, pool_vars>>
                ELSE /\ crashed' = FALSE
                     /\ db' = r.g.db /\ ents' = r.g.ents /\ heap' = r.g.heap
                     /\ last' = [op |-> a.op, kind |-> ExpKind(G_data, a, clock), n |-> 0]
                     /\ DelQueue(DelQueued(r.g), DelSlot(a.op))
    /\ UNCHANGED <<ref, cmd_limit, zs_vars, dq_vars, avl_vars, hm_vars, srv_vars>>

\* process_timers
DelTimers ==
    /\ ~crashed /\ ~tp_hist.killed
    /\ IF DelDangling
       THEN crashed' = TRUE /\ UNCHANGED <<db, ents, heap, last, pool_vars>>
       ELSE \E p \in {process_timers(Server, clock)} :
            \E o \in (IF p.ub THEN UBOutcomes ELSE {"defined"}) :
                IF o = "killed"
                THEN crashed' = TRUE /\ UNCHANGED <<db, ents, heap, last, pool_vars>>
                ELSE /\ crashed' = FALSE
                     /\ db' = p.g.db /\ ents' = p.g.ents /\ heap' = p.g.heap
                     /\ last' = [op |-> "timers", kind |-> "none",
                                 n |-> Len(heap) - Len(p.g.heap)]
                     /\ DelQueue(DelQueued(p.g), DelSlot("timers"))
    /\ UNCHANGED <<ref, cmd_limit, zs_vars, dq_vars, avl_vars, hm_vars, srv_vars>>

\* task.function(task.arg) is entry_destroy(ent): the entry is freed.  A
\* Worker that is not one submitted makes the thread call through a wild
\* pointer, and an entry that was freed before is freed twice
DelWorkerRun(i) ==
    /\ ~crashed /\ ~tp_hist.killed /\ threads[i].pc = "run"
    /\ IF threads[i].task \notin DOMAIN ents
       THEN /\ tp_hist' = [tp_hist EXCEPT !.killed = TRUE]
            /\ UNCHANGED <<threads, ents>>
       ELSE /\ ents' = free(ents, threads[i].task)
            /\ tp_hist' = [tp_hist EXCEPT !.executed = Append(@, threads[i].task)]
            /\ threads' = [threads EXCEPT ![i] = [pc |-> "lock", task |-> 0]]
    /\ UNCHANGED <<db, heap, crashed, pool, tp_main, tp_stack, cmd_vars, zs_vars, dq_vars,
                   avl_vars, hm_vars, srv_vars>>

DelWorkerLock(i) == ~crashed /\ WorkerLock(i)
DelWorkerSpurious(i) == ~crashed /\ WorkerSpurious(i)

DelNext ==
    \/ \E a \in DelCmds : DelDispatch(a)
    \/ DelTimers
    \/ ExpElapse
    \/ \E i \in DOMAIN threads : DelWorkerLock(i)
    \/ \E i \in DOMAIN threads : DelWorkerRun(i)
    \/ \E i \in DOMAIN threads : DelWorkerSpurious(i)

SpecDel == DelInit /\ [][DelNext]_vars

\* The entry a worker is about to destroy
DelInHand == {threads[i].task : i \in {j \in DOMAIN threads : threads[j].pc = "run"}}
                 \cap DOMAIN ents

\* C23: no entry that is destroyed, or that a worker is about to destroy, is
\* linked in the hash map or referenced from the TTL heap: an entry is
\* destroyed only after it has been removed from both, and one handed to the
\* pool is not reached by the main thread again
C23_DestroyedAfterRemoval ==
    /\ DelLinked(db) \subseteq DOMAIN ents
    /\ DelHeapRefs \subseteq DOMAIN ents
    /\ DelInHand \cap (DelLinked(db) \cup DelHeapRefs) = {}

\* The tasks the workers have taken are the first ones submitted: no Worker
\* was read after thread_pool_queue had written the next one to its address
DelTasksIntact ==
    /\ \A i \in DOMAIN threads : threads[i].task # Indeterminate
    /\ {tp_hist.executed[i] : i \in 1..Len(tp_hist.executed)}
           \cup {threads[i].task : i \in {j \in DOMAIN threads : threads[j].pc = "run"}}
       = {tp_hist.submitted[i] : i \in 1..(Len(tp_hist.submitted) - pool.queue.size)}

\* The statement of C23 in the states in which every task taken so far was
\* the one submitted
C23_HoldsWhenTasksIntact == DelTasksIntact => C23_DestroyedAfterRemoval

\* A worker has destroyed an entry that process_timers handed to the pool
C23_DestroyedByWorker ==
    /\ last.op = "timers" /\ last.n = 1 /\ tp_hist.executed # <<>>
    /\ Cardinality(DOMAIN ents) = 1

-----------------------------------------------------------------------------
(* The shape of the tree of SpecAVL after add and del                       *)

\* The number of nodes on the longest path from node down to a leaf
RECURSIVE AvlDepth(_, _)
AvlDepth(T, node) ==
    IF node = 0 THEN 0
    ELSE 1 + Max(AvlDepth(T, T[node].left), AvlDepth(T, T[node].right))

\* C31: after every insertion (avl_fix from the new leaf) and every avl_del,
\* the heights of the two subtrees of every node of the tree differ by one
\* at most.
C31_Balanced ==
    \A n \in DOMAIN avlc.T :
        /\ AvlDepth(avlc.T, avlc.T[n].left) <= AvlDepth(avlc.T, avlc.T[n].right) + 1
        /\ AvlDepth(avlc.T, avlc.T[n].right) <= AvlDepth(avlc.T, avlc.T[n].left) + 1

\* The del of a node that is not the root has left another root: avl_fix
\* has rotated at the root on the way up from the deleted node
C31_Witness ==
    /\ avl_last.op = "del" /\ avl_last.ret /\ ~avl_last.was_root
    /\ avl_last.root # avlc.root /\ Len(AvlNodes) >= 3

\* An add has left another root than the one it found
C31_AddRotated ==
    avl_last.op = "add" /\ avl_last.root # 0 /\ avl_last.root # avlc.root

\* C32: after every insertion and every avl_del, every node has height
\* 1 + max of its children's heights and count 1 + the sum of its children's
\* counts, every child's parent is the node that links to it, the root's
\* parent is null, and avl_height(root) is the real depth of the tree.
C32_Verified ==
    /\ \A n \in DOMAIN avlc.T :
        /\ avlc.T[n].height = 1 + Max(avl_height(avlc.T, avlc.T[n].left),
                                      avl_height(avlc.T, avlc.T[n].right))
        /\ avlc.T[n].count = 1 + avl_count(avlc.T, avlc.T[n].left)
                                + avl_count(avlc.T, avlc.T[n].right)
        /\ avlc.T[n].left # 0 => avlc.T[avlc.T[n].left].parent = n
        /\ avlc.T[n].right # 0 => avlc.T[avlc.T[n].right].parent = n
    /\ avlc.root # 0 => avlc.T[avlc.root].parent = 0
    /\ avl_height(avlc.T, avlc.root) = AvlDepth(avlc.T, avlc.root)

\* A node with two children was deleted from a tree of five nodes, and the
\* tree left is of depth 3
C32_Witness ==
    /\ avl_last.op = "del" /\ avl_last.ret /\ avl_last.children = 2
    /\ Len(AvlNodes) = 4 /\ avl_height(avlc.T, avlc.root) = 3

-----------------------------------------------------------------------------
(* zset_query on a small sorted set whose names differ in length            *)

\* The names added and popped: the empty name, a name, and two names it is
\* a proper prefix of (the second with a byte above 127)
ZqNames == {<<>>, <<98>>, <<98, 97>>, <<98, 200>>}
ZqScores == {1, 2}
ZqMaxMembers == 3
\* The (score, name) pairs queried: between, at and above the members
ZqProbes == (1..3) \X (ZqNames \cup {<<98, 98>>})

ZqInit ==
    /\ ZsIdle /\ DqIdle /\ PoolIdle /\ AvlIdle
    /\ DataIdle /\ CmdIdle /\ SrvIdle /\ HmIdle

ZqAdd(name, score) ==
    /\ Cardinality(DOMAIN zs_ref \cup {name}) <= ZqMaxMembers
    /\ ZsAdd(name, score)

\* zset_query(zset, score, name, len): the node found is kept in zs_last
ZqQuery(score, name) ==
    /\ zs_last' = ZsCall("query", name, score, zset_query(zs, score, name), FALSE)
    /\ UNCHANGED <<zs, zs_ref, dq_vars, pool_vars, avl_vars, hm_vars, data_vars, cmd_vars,
                   srv_vars>>

ZqNext ==
    \/ \E name \in ZqNames, score \in ZqScores : ZqAdd(name, score)
    \/ \E name \in ZqNames : ZsPop(name)
    \/ \E p \in ZqProbes : ZqQuery(p[1], p[2])

SpecZQ == ZqInit /\ [][ZqNext]_vars

\* The tuples of the set that are not below (score, name)
ZqAtLeast(score, name) ==
    {u \in {<<zs_ref[m], m>> : m \in DOMAIN zs_ref} : ~TupleLess(u, <<score, name>>)}

\* C33: zset_query(score, name) returns the smallest tuple (s, n) of the set
\* with (s, n) >= (score, name), tuples being ordered by score and, on equal
\* scores, by name bytewise with a proper prefix before the longer name; it
\* returns none iff every tuple of the set is smaller than (score, name).
C33_QueryIsLeastAtOrAbove ==
    zs_last.op = "query" =>
        \E C \in {ZqAtLeast(zs_last.score, zs_last.name)} :
            IF C = {} THEN zs_last.ret = 0
            ELSE /\ zs_last.ret \in DOMAIN zs.T
                 /\ \E t \in {<<zs.T[zs_last.ret].score, zs.T[zs_last.ret].name>>} :
                        t \in C /\ \A u \in C : ~TupleLess(u, t)

\* A query for (1, <<98, 97>>) in a full set that holds <<98>>
\* and <<98, 200>> with score 1 and not <<98, 97>>: the answer is
\* <<98, 200>>, past the prefix <<98>>
C33_Witness ==
    /\ zs_last.op = "query" /\ zs_last.score = 1 /\ zs_last.name = <<98, 97>>
    /\ Cardinality(DOMAIN zs_ref) = ZqMaxMembers
    /\ <<98, 97>> \notin DOMAIN zs_ref
    /\ <<98>> \in DOMAIN zs_ref /\ zs_ref[<<98>>] = 1
    /\ <<98, 200>> \in DOMAIN zs_ref /\ zs_ref[<<98, 200>>] = 1
    /\ zs_last.ret # 0 /\ zs.T[zs_last.ret].name = <<98, 200>>

\* A query above every tuple of a set that is not empty answers none
C33_None == zs_last.op = "query" /\ zs_last.ret = 0 /\ zs_ref # <<>>

-----------------------------------------------------------------------------
(* The write buffer of a connection, in the runs of SpecBig                  *)

\* The bytes of wbuf from wbuf_sent on
WbufRest(fd) == SubSeq(conns[fd].wbuf, conns[fd].wbuf_sent + 1, Len(conns[fd].wbuf))

\* The length of the complete frames at the head of a stream
RECURSIVE FramedLen(_)
FramedLen(stream) ==
    IF Len(stream) < 4 THEN 0
    ELSE Let(U32Read(SubSeq(stream, 1, 4)), LAMBDA n :
             IF Len(stream) < 4 + n THEN 0
             ELSE 4 + n + FramedLen(SubSeq(stream, 5 + n, Len(stream))))

\* wbuf_sent <= wbuf_size <= sizeof(wbuf), and both are 0 in STATE_REQ; what
\* was written on the connection and what is left in wbuf are whole frames
\* together, so no frame was dropped from wbuf with a part of it unwritten
WbufSound ==
    \A fd \in DOMAIN conns :
        /\ 0 <= conns[fd].wbuf_sent /\ conns[fd].wbuf_sent <= Len(conns[fd].wbuf)
        /\ Len(conns[fd].wbuf) <= 4 + k_max_msg
        /\ conns[fd].state = STATE_REQ => conns[fd].wbuf = <<>> /\ conns[fd].wbuf_sent = 0
        /\ \E s \in {Written(conns[fd].peer) \o WbufRest(fd)} : FramedLen(s) = Len(s)

\* A step of a connection that is in STATE_RES: in STATE_REQ afterwards, all
\* that was left of wbuf has been written and the offsets are 0; still in
\* STATE_RES, wbuf is as before, wbuf_sent has advanced by the bytes written,
\* and by none when the send queue was full (EAGAIN)
WbufStep ==
    \A fd \in DOMAIN conns \cap DOMAIN conns' :
        conns[fd].state = STATE_RES =>
            \E c \in {conns[fd].peer} :
                IF conns'[fd].state = STATE_REQ
                THEN /\ Written(c)' = Written(c) \o WbufRest(fd)
                     /\ conns'[fd].wbuf = <<>> /\ conns'[fd].wbuf_sent = 0
                ELSE /\ conns'[fd].state = STATE_RES
                     /\ conns'[fd].wbuf = conns[fd].wbuf
                     /\ conns'[fd].wbuf_sent >= conns[fd].wbuf_sent
                     /\ Written(c)' = Written(c)
                            \o SubSeq(conns[fd].wbuf, conns[fd].wbuf_sent + 1,
                                      conns'[fd].wbuf_sent)
                     /\ Len(net[c].tx) = SndBuf =>
                            conns'[fd].wbuf_sent = conns[fd].wbuf_sent

\* C34: for every connection wbuf_sent <= wbuf_size <= 4100 at all times and
\* a connection in STATE_REQ has wbuf_size = wbuf_sent = 0; a connection
\* leaves STATE_RES for STATE_REQ only when all of wbuf has been written, and
\* both offsets are then 0; on EAGAIN it stays in STATE_RES with wbuf and
\* wbuf_sent as they were.
C34_WriteBuffer == [](WbufSound) /\ [][WbufStep]_vars

\* A connection is in STATE_RES with a frame of 4096 bytes in wbuf, a part
\* of it written, and the send queue full: the last write answered EAGAIN
C34_Witness ==
    \E fd \in DOMAIN conns :
        /\ conns[fd].state = STATE_RES /\ Len(conns[fd].wbuf) = k_max_msg
        /\ conns[fd].wbuf_sent > SndBuf /\ conns[fd].wbuf_sent < k_max_msg
        /\ Len(net[conns[fd].peer].tx) = SndBuf

\* The frame of 4096 bytes has been written whole and the connection is in
\* STATE_REQ again
C34_Drained ==
    /\ Len(BigPayload) = k_max_msg - 4
    /\ Len(Written(1)) >= k_max_msg
    /\ \E fd \in DOMAIN conns : conns[fd].state = STATE_REQ

-----------------------------------------------------------------------------
(* hm_insert when calloc has no memory for the bucket array of h_init         *)

\* h_init when calloc returns nullptr: tab is nullptr, mask and size are set
h_init_nomem(n0) ==
    Let(IF n0 = 0 THEN 2 ELSE n0, LAMBDA n1 :
    Let(IF ~IsPow2(n1) THEN clp2(n1) ELSE n1, LAMBDA n :
        [tab |-> <<>>, mask |-> n - 1, size |-> 0]))

\* hm_start_resizing with that h_init
hm_start_resizing_nomem(hm) ==
    [ht1 |-> h_init_nomem((hm.ht1.mask + 1) * 2), ht2 |-> hm.ht1, resizing_pos |-> 0]

\* hm_insert in which every calloc returns nullptr: [hmap, ub].  h_insert
\* reads htab->tab[pos] of the table h_init has just set up, a nullptr: the
\* one of hm_insert after h_init(4), or the one of hm_help_resizing after
\* hm_start_resizing; hmap is the map as the call has left it by then.  A
\* call that allocates nothing is hm_insert.
hm_insert_nomem(hm0, node) ==
    IF hm0.ht1.tab = <<>>
    THEN [hmap |-> [hm0 EXCEPT !.ht1 = h_init_nomem(4)], ub |-> TRUE]
    ELSE Let([hm0 EXCEPT !.ht1 = h_insert(@, node)], LAMBDA hm2 :
         Let(hm2.ht1.size \div (hm2.ht1.mask + 1), LAMBDA load_factor :
             IF hm2.ht2.tab = <<>> /\ load_factor >= k_max_load_factor
             THEN [hmap |-> hm_start_resizing_nomem(hm2), ub |-> TRUE]
             ELSE [hmap |-> hm_help_resizing(hm2), ub |-> FALSE]))

\* The map is not one that a failed calloc has left
AllocIntact == hmap.ht1.tab # <<>> \/ hmap.ht2.tab = <<>>

\* hm_insert of a new key while calloc returns nullptr
HmInsertNoMem(k) ==
    /\ ~hm_crashed /\ AllocIntact
    /\ k \notin hm_ref /\ HmWhere(k) = "none"
    /\ \E r \in {hm_insert_nomem(hmap, HmNode(k))} :
           /\ hmap' = r.hmap
           /\ IF r.ub
              THEN \E o \in UBOutcomes : hm_crashed' = (o = "killed")
              ELSE hm_crashed' = FALSE
    /\ hm_ref' = hm_ref \cup {k}
    /\ hm_last' = HmCall("insert_nomem", k, 0)
    /\ UNCHANGED <<hm_limit, data_vars, cmd_vars, srv_vars, lib_vars>>

AllocNext ==
    \/ AllocIntact /\ HmNext
    \/ \E k \in HmNextFresh \cup (HmProbes \cap (1..hm_limit)) : HmInsertNoMem(k)

SpecAlloc == HmInit /\ [][AllocNext]_vars

\* C35: when the allocation of the new bucket array fails at the start of a
\* rehash, the map keeps its pre-resize shape (the current table with all
\* its entries, no retiring table, the cursor as it was), the process goes
\* on, and every key stays lookupable.
C35_AllocFailureKeepsShape ==
    [][(hm_last'.op = "insert_nomem" /\ hm_last' # hm_last /\ hmap.ht1.tab # <<>>) =>
          /\ ~hm_crashed'
          /\ hmap'.ht2.tab = <<>>
          /\ hmap'.ht1.mask = hmap.ht1.mask
          /\ hmap'.resizing_pos = hmap.resizing_pos
          /\ \A k \in hm_ref' :
                 h_lookup(hmap'.ht1, HmNode(k), "entry_eq").idx # 0]_vars

\* An hm_insert that allocates nothing is not affected by the lack of memory
C35_NoAllocNoEffect ==
    [][(hm_last'.op = "insert_nomem" /\ hm_last' # hm_last /\ hmap.ht1.tab # <<>>
          /\ ~(hmap.ht2.tab = <<>>
                /\ (hmap.ht1.size + 1) \div (hmap.ht1.mask + 1) >= k_max_load_factor)) =>
          /\ ~hm_crashed'
          /\ hmap' = hm_insert(hmap, HmNode(hm_last'.key))]_vars

\* The process was killed by an hm_insert that started a rehash
C35_Killed == hm_last.op = "insert_nomem" /\ hm_crashed /\ hmap.ht2.size > 0

-----------------------------------------------------------------------------
(* The tasks the workers of SpecTP run                                       *)

\* The tasks the workers have copied from the queue: those run to the end
\* and those in the hands of a thread
TpTaken ==
    tp_hist.executed
        \o [k \in 1..Cardinality({i \in DOMAIN threads : threads[i].pc = "run"}) |->
               threads[CHOOSE i \in DOMAIN threads :
                          /\ threads[i].pc = "run"
                          /\ Cardinality({j \in 1..i : threads[j].pc = "run"}) = k].task]

\* C36: every task a worker executes is one that was submitted, is executed
\* at most once, and is the function and argument given to the submit call
\* that enqueued it, also when thread_pool_queue has returned and further
\* submits were made before the worker dequeues it.
C36_TasksRunAsSubmitted ==
    /\ ~tp_hist.killed
    /\ \A j \in 1..Len(TpTaken) :
           /\ \E k \in 1..Len(tp_hist.submitted) : tp_hist.submitted[k] = TpTaken[j]
           /\ \A k \in 1..Len(TpTaken) : k # j => TpTaken[k] # TpTaken[j]

\* The same while no Worker has been read after the call that wrote it had
\* returned and its place on the stack was written again
C36_HoldsWhileStackIntact ==
    (\A i \in DOMAIN threads : threads[i].task # Indeterminate)
        /\ (\A j \in 1..Len(TpTaken) : \A k \in 1..Len(TpTaken) :
                k # j => TpTaken[k] # TpTaken[j])
        => /\ ~tp_hist.killed
           /\ \A j \in 1..Len(TpTaken) :
                  \E k \in 1..Len(tp_hist.submitted) : tp_hist.submitted[k] = TpTaken[j]

\* A task was run twice: two submits wrote their Worker to the same address
\* before a worker read the first
C36_RunTwice ==
    \E j \in 1..Len(tp_hist.executed) : \E k \in 1..Len(tp_hist.executed) :
        j # k /\ tp_hist.executed[j] = tp_hist.executed[k]

-----------------------------------------------------------------------------
(* The shutdown of the pool of SpecMx under a fair scheduler                 *)

\* Every thread that can take a step takes one; a thread that asks for the
\* mutex gets it if the mutex is free again and again; a task that was
\* called returns; pthread_cond_wait need not return without a signal, and
\* the main thread need not submit or shut down
SpecMxFair ==
    /\ MxInit /\ [][MxNext]_vars
    /\ SF_vars(MxMainLock)
    /\ WF_vars(MxQueuePush \/ MxMainUnlock \/ MxSignal \/ MxDestroyStop \/ MxJoin
                   \/ MxDestroyQueue)
    /\ \A i \in 1..MxWorkers :
           /\ SF_vars(MxWorkerLock(i))
           /\ WF_vars(MxWorkerTest(i) \/ MxWorkerCheck(i) \/ MxWorkerLeave(i)
                          \/ MxWorkerTake(i) \/ MxWorkerUnlock(i) \/ WorkerRun(i))

MxAllExited == \A i \in DOMAIN threads : threads[i].pc = "exited"

\* C37: thread_pool_destroy returns when every task terminates: once stop is
\* set and the condition is broadcast every worker exits, whether it was
\* waiting on the condition, about to wait or running a task, after any
\* submits; a run in which a worker has called through a wild pointer is
\* not one in which every task terminates.
C37_DestroyReturns ==
    /\ (tp_main.pc = "d_lock") ~> (tp_main.pc = "returned" \/ tp_hist.killed)
    /\ (pool.stop) ~> (MxAllExited \/ tp_hist.killed)
    /\ [](tp_main.pc = "returned" => MxAllExited)

\* thread_pool_destroy has returned, every worker has exited, and a task
\* that was submitted is still in the queue: the workers left on stop
C37_Witness ==
    /\ tp_main.pc = "returned" /\ MxAllExited /\ ~tp_hist.killed
    /\ Len(tp_hist.submitted) = MxMaxTasks
    /\ pool.queue.size > 0

\* stop is set while one worker waits on the condition and the other runs
\* a task
C37_StopWhileWaitingAndRunning ==
    /\ tp_main.pc = "d_unlock"
    /\ \E i \in DOMAIN threads : threads[i].pc = "relock"
    /\ \E i \in DOMAIN threads : threads[i].pc = "run"

-----------------------------------------------------------------------------
(* The read buffer: one client that pipelines frames of up to 4100 bytes,    *)
(* sent in two pieces or at once, and reads the responses eight bytes at a   *)
(* time, so that the server's writes block                                   *)

\* A SET whose frame is 4 + k_max_msg bytes: the body is the count, "set",
\* a key of one byte and the value, each with its length
FillValLen == k_max_msg - 20
FillBig(key) == ErrRaw(<<Str_set, <<key>>, [i \in 1..FillValLen |-> 97 + (i % 5)]>>)
FillGet == ErrRaw(<<Str_get, ErrKeyS>>)
FillTooLong == [Cmd0 EXCEPT !.op = "toolong"]
FillScripts ==
    {<<FillGet, FillBig(98), FillGet>>, <<FillBig(98), FillBig(99)>>,
     <<FillGet, FillGet, FillBig(98), FillGet>>, <<FillGet, FillTooLong, FillBig(98)>>}
\* The first piece sent is one byte short of the read buffer
FillPiece == 4 + k_max_msg - 1

FillInit == \E s \in FillScripts : SrvInit(<<Client(s, "pending")>>, G_init, GhNone)

FillNext ==
    \/ ServerStep
    \/ ErrElapse
    \/ \E n \in {FillPiece, Len(net[1].tosend)} : ClientSend(1, n)
    \/ ClientRecv(1, SndBuf)

SpecFill == FillInit /\ [][FillNext]_vars

\* The Conn of fd as connection_io is given it
FillX(fd) ==
    [conn |-> conns[fd], sock |-> net[conns[fd].peer], g |-> G_data, gh |-> gh,
     ub |-> FALSE, running |-> loop.running, now |-> clock]

\* The assertions of try_fill_buffer along state_req: rbuf_size is below
\* sizeof(rbuf) when try_fill_buffer is entered and not above it after the
\* read, and a buffer that the read has filled has a frame at its head that
\* try_one_request takes out, or the connection is closed
RECURSIVE FillAsserts(_)
FillAsserts(X) ==
    /\ Len(X.conn.rbuf) < 4 + k_max_msg
    /\ \E rd \in {read(X.sock, (4 + k_max_msg) - Len(X.conn.rbuf))} :
           rd.rv > 0 =>
               /\ \E X0 \in {[X EXCEPT !.sock = rd.sock, !.conn.rbuf = @ \o rd.data]} :
                      /\ Len(X0.conn.rbuf) <= 4 + k_max_msg
                      /\ Len(X0.conn.rbuf) = 4 + k_max_msg =>
                             \E r1 \in {try_one_request(X0)} :
                                 \/ r1.x.conn.state = STATE_END
                                 \/ Len(r1.x.conn.rbuf) < 4 + k_max_msg
               /\ \E r \in {try_fill_buffer(X)} : r.ret => FillAsserts(r.x)

\* C38: whenever the server is about to read into a connection's read
\* buffer rbuf_size is below 4100, rbuf_size never exceeds 4100, and a
\* connection that is not closed never holds a full read buffer without a
\* frame that is consumed, for frames of up to 4096 bytes, partial reads and
\* blocked writes.
C38_ReadBuffer ==
    \A fd \in DOMAIN conns :
        /\ Len(conns[fd].rbuf) < 4 + k_max_msg
        /\ conns[fd].state = STATE_REQ => FillAsserts(FillX(fd))

\* The read has filled the buffer with two GETs and the first 4060 bytes of
\* a frame of 4100; the GETs were taken out and the second response is not
\* written whole: the connection is in STATE_RES with the rest in rbuf
C38_Witness ==
    \E fd \in DOMAIN conns :
        /\ conns[fd].state = STATE_RES
        /\ conns[fd].wbuf_sent > 0
        /\ Len(conns[fd].rbuf) = 4 + k_max_msg - 2 * Len(FrameOf(FillGet))

\* A frame of 4100 bytes was read whole and answered
C38_BigServed ==
    /\ net[1].cmds[1] = FillBig(98) /\ Len(Payloads(net[1].rcvd)) >= 1
    /\ \E fd \in DOMAIN conns : TRUE

-----------------------------------------------------------------------------
(* SET and ZADD on keys that exist, with and without a TTL: two values for  *)
(* the string a, two members for the sorted set z, and EXPIRE of a, b and z *)

SetValues == {<<118>>, <<119, 119>>}
SetMembers == {[name |-> <<109>>, score |-> <<50>>], [name |-> <<110>>, score |-> <<49>>]}
SetTtl == CHOOSE c \in ExpChoices : c.ms = I64(10)
SetCmds ==
    {[op |-> "set", key |-> <<97>>, ttl |-> TtlNone, val |-> v, name |-> <<>>,
      score |-> <<>>] : v \in SetValues}
    \cup {[op |-> "zadd", key |-> ExpZKey, ttl |-> TtlNone, val |-> <<>>, name |-> z.name,
           score |-> z.score] : z \in SetMembers}
    \cup {[op |-> "expire", key |-> k, ttl |-> c, val |-> <<>>, name |-> <<>>,
           score |-> <<>>] : k \in ExpKeys, c \in {SetTtl}}

SetArgs(a) ==
    CASE a.op = "set" -> <<Str_set, a.key, a.val>>
      [] a.op = "zadd" -> <<Str_zadd, a.key, a.score, a.name>>
      [] OTHER -> ExpArgs(a)

\* One command through do_request at the present time; last keeps the
\* command, the entry its key had and whether an entry has changed
SetDispatch(a) ==
    /\ ~crashed
    /\ \E r \in {do_request(G_data, SetArgs(a), <<>>, clock)} :
       \E o \in (IF r.ub THEN UBOutcomes ELSE {"defined"}) :
           IF o = "killed"
           THEN crashed' = TRUE /\ UNCHANGED <<db, ents, heap, last, ref>>
           ELSE /\ crashed' = FALSE
                /\ db' = r.g.db /\ ents' = r.g.ents /\ heap' = r.g.heap
                /\ last' = [op |-> a.op, kind |-> ExpKind(G_data, a, clock), n |-> 0,
                            cmd |-> a, e |-> ExpEntry(G_data, a.key),
                            changed |-> r.g.ents # ents]
                /\ ref' = ExpRef(ref, a, clock)
    /\ UNCHANGED <<cmd_limit, lib_vars, hm_vars, srv_vars>>

SetNext ==
    \/ \E a \in SetCmds : SetDispatch(a)
    \/ ExpTimers
    \/ ExpElapse

SpecSet == ExpInit /\ [][SetNext]_vars

\* The keys linked in the keyspace
DbKeys(hm) == {n.key : n \in ErrTabNodes(hm.ht1) \cup ErrTabNodes(hm.ht2)}

\* SET on a key that holds a string: of the entries only the value of that
\* one has changed, and the TTL heap and the keys of the keyspace are the same
SetFrame ==
    (/\ last' # last /\ last'.op = "set"
     /\ last'.e # 0 /\ ents[last'.e].type = T_STR)
    => /\ ents' = [ents EXCEPT ![last'.e].value = last'.cmd.val]
       /\ heap' = heap
       /\ DbKeys(db') = DbKeys(db)

\* ZADD on a key that holds a sorted set: of the entries only the zset of
\* that one has changed, and the TTL heap and the keys are the same
ZaddFrame ==
    (/\ last' # last /\ last'.op = "zadd"
     /\ last'.e # 0 /\ ents[last'.e].type = T_ZSET)
    => /\ ents' = [ents EXCEPT ![last'.e].zset = ents'[last'.e].zset]
       /\ heap' = heap
       /\ DbKeys(db') = DbKeys(db)

\* C39: SET k v on an existing string key changes only that key's value: the
\* key's TTL (its heap slot and deadline), every other key and every other
\* key's TTL are left unchanged; ZADD on an existing sorted set leaves its
\* key's TTL unchanged.
C39_SetChangesValueOnly == [][SetFrame /\ ZaddFrame]_vars

\* A SET has given a new value to a key that has a TTL, with a second
\* deadline in the heap
C39_Witness ==
    /\ last.op = "set" /\ "e" \in DOMAIN last /\ last.e # 0 /\ Len(heap) >= 2
    /\ last.e \in DOMAIN ents /\ ents[last.e].heap_idx # SIZE_MAX
    /\ last.changed
    /\ ents[last.e].value = last.cmd.val

\* A ZADD has added a second member to a sorted set that has a TTL
C39_ZaddWithTtl ==
    /\ last.op = "zadd" /\ "e" \in DOMAIN last /\ last.e # 0 /\ last.e \in DOMAIN ents
    /\ ents[last.e].heap_idx # SIZE_MAX
    /\ last.changed

-----------------------------------------------------------------------------
(* The cursor of a rehash: resizing_pos over the buckets of the retiring    *)
(* table, in the states between the calls and in every pass of the loop of  *)
(* hm_help_resizing                                                          *)

\* Every bucket of the retiring table below the cursor is empty, and the
\* cursor is at an existing bucket as long as the table holds a node
CursorSound(hm) ==
    hm.ht2.tab # <<>> =>
        /\ \A pos \in DOMAIN hm.ht2.tab : pos < hm.resizing_pos => hm.ht2.tab[pos] = <<>>
        /\ hm.ht2.size > 0 => hm.resizing_pos <= hm.ht2.mask

\* The first n passes of the loop, from [hm, nwork]: whenever the loop body is
\* entered, the bucket it reads exists and the buckets before it are empty
RECURSIVE HelpPassesSound(_, _)
HelpPassesSound(st, n) ==
    IF n = 0 THEN TRUE
    ELSE IF n = 1
    THEN (st.nwork < k_resizing_work /\ st.hm.ht2.size > 0) =>
             st.hm.resizing_pos \in DOMAIN st.hm.ht2.tab /\ CursorSound(st.hm)
    ELSE /\ HelpPassesSound(st, n \div 2)
         /\ HelpPassesSound(help_resizing_loop(st, n \div 2), n - (n \div 2))

\* The loop has ended after one pass per node it may move and one per bucket
HelpEnds(hm) ==
    \E st \in {help_resizing_loop([hm |-> hm, nwork |-> 0],
                                  k_resizing_work + hm.ht2.mask + 1)} :
        ~(st.nwork < k_resizing_work /\ st.hm.ht2.size > 0)

\* The map as hm_insert hands it to hm_help_resizing
hm_insert_entry(hm0, node) ==
    Let(IF hm0.ht1.tab = <<>> THEN [hm0 EXCEPT !.ht1 = h_init(4)] ELSE hm0, LAMBDA hm1 :
    Let([hm1 EXCEPT !.ht1 = h_insert(@, node)], LAMBDA hm2 :
    Let(hm2.ht1.size \div (hm2.ht1.mask + 1), LAMBDA load_factor :
        IF hm2.ht2.tab = <<>> /\ load_factor >= k_max_load_factor
        THEN hm_start_resizing(hm2) ELSE hm2)))

\* The maps the next call of hm_help_resizing can be given: the map as it is
\* (hm_lookup, hm_pop) and the map after the first half of hm_insert
HelpEntries ==
    {hmap} \cup {hm_insert_entry(hmap, HmNode(k)) :
                    k \in {j \in HmNextFresh \cup (HmProbes \cap (1..hm_limit)) :
                              j \notin hm_ref}}

\* C40: during a rehash every bucket of the retiring table with index below
\* the rehash cursor is empty, and whenever the retiring table still holds
\* entries the cursor is at most its mask, so the relocation loop never
\* indexes past the end of the retiring bucket array and always terminates.
C40_CursorInBounds ==
    /\ CursorSound(hmap)
    /\ ~hm_crashed =>
           \A hm \in HelpEntries :
               hm.ht2.tab # <<>> =>
                   /\ HelpPassesSound([hm |-> hm, nwork |-> 0],
                                      k_resizing_work + hm.ht2.mask + 1)
                   /\ HelpEnds(hm)

\* A rehash of 64 buckets is in progress: the cursor is past the first
\* buckets, the bucket it is at holds nodes still, a call has popped a key
\* from the current table meanwhile, and the retiring table has nodes left
C40_Witness ==
    /\ hmap.ht2.tab # <<>> /\ hmap.ht2.mask = 63
    /\ hmap.resizing_pos > 0 /\ hmap.ht2.size > 0
    /\ hmap.ht2.tab[hmap.resizing_pos] # <<>>
    /\ hm_last.op = "pop" /\ hm_last.rehash

=============================================================================
